---- MODULE Spec2Model ----
(***************************************************************************)
(* Model of dotenvage's dimension-aware .env loader (src/src/loader.rs)    *)
(* and of the value cipher it calls (src/src/manager.rs).                  *)
(*                                                                         *)
(* Text is modelled as a sequence of tokens.  A token is either one        *)
(* character ("=", ".", "-", "#", a letter, a digit ...) or a literal the  *)
(* code only ever treats as a unit: an environment variable name           *)
(* ("NODE_ENV"), the base file name (".env"), the envelope tag             *)
(* ("ENC[AGE:b64:"), an architecture or OS alias ("x86_64").  The token    *)
(* "0xFF" stands for a byte sequence that is not valid UTF-8.  Every       *)
(* string operation of the code (trim, starts_with, split, to_lowercase,   *)
(* join) is modelled on token sequences.                                   *)
(*                                                                         *)
(* Option<T> is a sequence of length 0 (None) or 1 (Some).                 *)
(* A HashMap and the process environment are functions whose DOMAIN is the *)
(* set of keys present.                                                    *)
(***************************************************************************)
EXTENDS Integers, Sequences, FiniteSets, TLC

None == <<>>
Some(x) == <<x>>
IsSome(o) == o # <<>>
Unwrap(o) == o[1]
OrElse(a, b) == IF IsSome(a) THEN a ELSE b

Ok(v) == [tag |-> "Ok", val |-> v]
Err(e) == [tag |-> "Err", err |-> e]
Panic(w) == [tag |-> "Panic", why |-> w]

(***************************************************************************)
(* String primitives (Rust std) on token sequences.                        *)
(***************************************************************************)
LowerMap ==
    [t \in {"P", "S", "C", "A", "B", "V", ".ENV", "LOCAL", "PR", "X64", "X86_64",
            "AMD64", "ARM64", "AARCH64", "Linux", "LINUX", "macOS", "Windows",
            "PROD", "PrOd", "ALICE", "AlIcE"} |->
       CASE t = "P" -> "p"
         [] t = "PROD" -> "prod"
         [] t = "PrOd" -> "prod"
         [] t = "ALICE" -> "alice"
         [] t = "AlIcE" -> "alice"
         [] t = "S" -> "s"
         [] t = "C" -> "c"
         [] t = "A" -> "a"
         [] t = "B" -> "b"
         [] t = "V" -> "v"
         [] t = ".ENV" -> ".env"
         [] t = "LOCAL" -> "local"
         [] t = "PR" -> "pr"
         [] t = "X64" -> "x64"
         [] t = "X86_64" -> "x86_64"
         [] t = "AMD64" -> "amd64"
         [] t = "ARM64" -> "arm64"
         [] t = "AARCH64" -> "aarch64"
         [] t = "Linux" -> "linux"
         [] t = "LINUX" -> "linux"
         [] t = "macOS" -> "macos"
         [] t = "Windows" -> "windows"]

\* char::to_lowercase: the tokens holding upper-case letters, by table.
LowerTok(t) == IF t \in DOMAIN LowerMap THEN LowerMap[t] ELSE t

to_lowercase(s) == [i \in 1..Len(s) |-> LowerTok(s[i])]

IsWhite(t) == t \in {" ", "\t"}

RECURSIVE trim_start(_)
trim_start(s) ==
    IF s # <<>> /\ IsWhite(s[1]) THEN trim_start(Tail(s)) ELSE s

RECURSIVE trim_end(_)
trim_end(s) ==
    IF s # <<>> /\ IsWhite(s[Len(s)]) THEN trim_end(SubSeq(s, 1, Len(s) - 1)) ELSE s

trim(s) == trim_end(trim_start(s))

starts_with(s, p) == Len(s) >= Len(p) /\ SubSeq(s, 1, Len(p)) = p
ends_with(s, p) == Len(s) >= Len(p) /\ SubSeq(s, Len(s) - Len(p) + 1, Len(s)) = p

\* str::trim_matches(c): strips every leading and trailing occurrence of c.
RECURSIVE trim_matches(_, _)
trim_matches(s, c) ==
    IF s # <<>> /\ s[1] = c THEN trim_matches(Tail(s), c)
    ELSE IF s # <<>> /\ s[Len(s)] = c THEN trim_matches(SubSeq(s, 1, Len(s) - 1), c)
    ELSE s

\* str::find for a one-token pattern: the first index holding it, 0 if none.
RECURSIVE find_from(_, _, _)
find_from(s, c, i) ==
    IF i > Len(s) THEN 0
    ELSE IF s[i] = c THEN i
    ELSE find_from(s, c, i + 1)

find(s, c) == find_from(s, c, 1)

\* str::split_once(c): None, or Some(<<before, after>>) around the first c.
split_once(s, c) ==
    LET i == find(s, c)
    IN  IF i = 0 THEN None
        ELSE Some(<<SubSeq(s, 1, i - 1), SubSeq(s, i + 1, Len(s))>>)

\* str::split(c): the segments between the occurrences of c (never empty).
RECURSIVE split(_, _)
split(s, c) ==
    LET i == find(s, c)
    IN  IF i = 0 THEN <<s>>
        ELSE <<SubSeq(s, 1, i - 1)>> \o split(SubSeq(s, i + 1, Len(s)), c)

\* Iterator::nth(n) with n counted from 0.
nth(segs, n) == IF n + 1 <= Len(segs) THEN Some(segs[n + 1]) ELSE None

\* [&str]::join(sep)
RECURSIVE join(_, _)
join(parts, sep) ==
    IF parts = <<>> THEN <<>>
    ELSE IF Len(parts) = 1 THEN parts[1]
    ELSE parts[1] \o sep \o join(Tail(parts), sep)

\* A String (and a file std::fs::read_to_string accepts) holds valid UTF-8.
is_unicode(s) == \A i \in 1..Len(s) : s[i] # "0xFF"

(***************************************************************************)
(* HashMap<String, String> and the process environment.                    *)
(***************************************************************************)
EmptyMap == <<>>

insert(m, k, v) == [x \in (DOMAIN m) \cup {k} |-> IF x = k THEN v ELSE m[x]]

\* HashMap::extend: every entry of `more` is inserted, replacing an old value.
extend(m, more) ==
    [x \in (DOMAIN m) \cup (DOMAIN more) |-> IF x \in DOMAIN more THEN more[x] ELSE m[x]]

\* std::env::var(k).ok(): None when unset or when the value is not Unicode.
var(e, k) == IF k \in DOMAIN e /\ is_unicode(e[k]) THEN Some(e[k]) ELSE None

\* std::env::var(k).ok().filter(|s| !s.is_empty())
var_nonempty(e, k) ==
    IF IsSome(var(e, k)) /\ Unwrap(var(e, k)) # <<>> THEN var(e, k) ELSE None

\* std::env::set_var panics on an empty key or on a key holding '='.
set_var_panics(k) == k = <<>> \/ find(k, "=") # 0

set_var(e, k, v) == insert(e, k, v)

remove_var(e, k) == [x \in (DOMAIN e) \ {k} |-> e[x]]

(***************************************************************************)
(* SecretManager (manager.rs).  An age envelope is modelled by its         *)
(* content: the recipient's key id followed by the plaintext tokens.       *)
(* Base64 text is a sequence of tokens of the base64 alphabet, one per     *)
(* byte token, padded with "=" to a multiple of three; white space, "]",   *)
(* "!" and the byte tokens themselves are outside the alphabet.            *)
(***************************************************************************)
TagCompact == "ENC[AGE:b64:"
TagArmor == "-----BEGIN AGE ENCRYPTED FILE-----"
TagArmorEnd == "-----END AGE ENCRYPTED FILE-----"
KeyIds == {"k1", "k2"}

is_encrypted(value) ==
    LET t == trim(value)
    IN  starts_with(t, <<TagCompact>>) \/ starts_with(t, <<TagArmor>>)

\* The base64 text of each byte token.
B64Map ==
    [t \in {"k1", "k2", "s", "2", "a", " ", "\t", "]", "!", "=", "0xFF",
            "ENC[AGE:b64:", "-----BEGIN AGE ENCRYPTED FILE-----"} |->
       CASE t = "k1" -> "azE"
         [] t = "k2" -> "azI"
         [] t = "s" -> "cw"
         [] t = "2" -> "Mg"
         [] t = "a" -> "YQ"
         [] t = " " -> "IA"
         [] t = "\t" -> "CQ"
         [] t = "]" -> "XQ"
         [] t = "!" -> "IQ"
         [] t = "=" -> "PQ"
         [] t = "0xFF" -> "/w"
         [] t = "ENC[AGE:b64:" -> "RU5DW0FHRTpiNjQ6"
         [] t = "-----BEGIN AGE ENCRYPTED FILE-----" ->
                "LS0tLS1CRUdJTiBBR0UgRU5DUllQVEVEIEZJTEUtLS0tLQ"]

B64Alphabet == {B64Map[t] : t \in DOMAIN B64Map}

\* The padding of n bytes: "==" after one byte over a multiple of three,
\* "=" after two.
b64_padding(n) == [i \in 1..((3 - (n % 3)) % 3) |-> "="]

\* A faulty base64 encoder, one that leaves the padding out: C19 does not
\* hold of it.
base64_encode_unpadded(bytes) == [i \in 1..Len(bytes) |-> B64Map[bytes[i]]]

\* base64 STANDARD.encode
base64_encode(bytes) ==
    [i \in 1..Len(bytes) |-> B64Map[bytes[i]]] \o b64_padding(Len(bytes))

\* The text without its trailing "=".
RECURSIVE strip_padding(_)
strip_padding(text) ==
    IF text # <<>> /\ text[Len(text)] = "="
    THEN strip_padding(SubSeq(text, 1, Len(text) - 1))
    ELSE text

\* base64 STANDARD.decode: the padding has to be the canonical one and every
\* other token has to be of the alphabet.
base64_decode(inner) ==
    LET body == strip_padding(inner)
    IN  IF \/ \E i \in 1..Len(body) : body[i] \notin B64Alphabet
           \/ inner # body \o b64_padding(Len(body))
        THEN Err("invalid base64")
        ELSE Ok([i \in 1..Len(body) |->
                    CHOOSE t \in DOMAIN B64Map : B64Map[t] = body[i]])

\* age::Decryptor::new + decrypt + read_to_end + String::from_utf8
age_decrypt(identity, bytes) ==
    IF bytes = <<>> \/ bytes[1] \notin KeyIds THEN Err("bad header")
    ELSE IF bytes[1] # identity THEN Err("no matching keys")
    ELSE IF ~is_unicode(Tail(bytes)) THEN Err("invalid utf-8")
    ELSE Ok(Tail(bytes))

\* A faulty decrypt_value, one that returns a value it does not decrypt
\* trimmed: C20 does not hold of it.
decrypt_value_trimming(m, value) ==
    LET trimmed == trim(value)
    IN  IF starts_with(trimmed, <<TagCompact>>) \/ starts_with(trimmed, <<TagArmor>>)
        THEN Err([kind |-> "DecryptionFailed", reason |-> "bad header"])
        ELSE Ok(trimmed)

decrypt_value(m, value) ==
    LET trimmed == trim(value)
        rest == SubSeq(trimmed, 2, Len(trimmed))
    IN  IF starts_with(trimmed, <<TagCompact>>) /\ ends_with(rest, <<"]">>)
        THEN LET inner == SubSeq(rest, 1, Len(rest) - 1)
                 encrypted == base64_decode(inner)
             IN  IF encrypted.tag = "Err"
                 THEN Err([kind |-> "DecryptionFailed", reason |-> encrypted.err])
                 ELSE LET d == age_decrypt(m.identity, encrypted.val)
                      IN  IF d.tag = "Err"
                          THEN Err([kind |-> "DecryptionFailed", reason |-> d.err])
                          ELSE d
        ELSE IF starts_with(trimmed, <<TagArmor>>)
        THEN LET body == IF ends_with(rest, <<TagArmorEnd>>)
                         THEN SubSeq(rest, 1, Len(rest) - 1)
                         ELSE <<>>
                 d == age_decrypt(m.identity, body)
             IN  IF d.tag = "Err"
                 THEN Err([kind |-> "DecryptionFailed", reason |-> d.err])
                 ELSE d
        ELSE Ok(value)

\* SecretManager::public_key: the recipient of the identity held.
public_key(m) == m.identity

\* age::Encryptor::with_recipients + wrap_output + write_all + finish
age_encrypt(recipient, bytes) == <<recipient>> \o bytes

\* SecretManager::encrypt_value
encrypt_value(m, plaintext) ==
    Ok(<<TagCompact>> \o base64_encode(age_encrypt(public_key(m), plaintext)) \o <<"]">>)

(***************************************************************************)
(* The directory: the entries in read_dir order, each a file name and the  *)
(* file's lines.                                                           *)
(***************************************************************************)
\* A faulty find_file_case_insensitive, one that compares the names as they
\* are: C16 does not hold of it.
find_file_exact(d, filename) ==
    IF \E i \in 1..Len(d) : d[i].name = filename THEN Some(filename) ELSE None

\* EnvLoader::find_file_case_insensitive: the first entry, in read_dir
\* order, whose lower-cased name equals the lower-cased file name.
RECURSIVE find_entry_from(_, _, _)
find_entry_from(d, target, i) ==
    IF i > Len(d) THEN None
    ELSE IF to_lowercase(d[i].name) = target THEN Some(d[i].name)
    ELSE find_entry_from(d, target, i + 1)

find_file_case_insensitive(d, filename) ==
    find_entry_from(d, to_lowercase(filename), 1)

\* A faulty add_exact_if_exist, one that appends a match without looking for
\* it in the list: C8 does not hold of it.
add_without_contains(d, paths, filename) ==
    LET p == find_file_case_insensitive(d, filename)
    IN  IF IsSome(p) THEN Append(paths, Unwrap(p)) ELSE paths

\* EnvLoader::add_exact_if_exist
add_exact_if_exist(d, paths, filename) ==
    LET p == find_file_case_insensitive(d, filename)
    IN  IF IsSome(p) /\ ~(\E i \in 1..Len(paths) : paths[i] = Unwrap(p))
        THEN Append(paths, Unwrap(p))
        ELSE paths

\* std::fs::read_to_string(path): the lines, or an error when the path is
\* no entry of the directory or the bytes are not UTF-8.
read_to_string(d, path) ==
    IF \E i \in 1..Len(d) : d[i].name = path
    THEN LET i == CHOOSE j \in 1..Len(d) : d[j].name = path
         IN  IF \A l \in 1..Len(d[i].content) : is_unicode(d[i].content[l])
             THEN Ok(d[i].content)
             ELSE Err("stream did not contain valid UTF-8")
    ELSE Err("No such file or directory")

(***************************************************************************)
(* EnvLoader::parse_and_decrypt and load_env_file                          *)
(***************************************************************************)
is_quoted(value) ==
    \/ starts_with(value, <<"\"">>) /\ ends_with(value, <<"\"">>)
    \/ starts_with(value, <<"'">>) /\ ends_with(value, <<"'">>)

\* A faulty parser, one that leaves out a line whose value does not decrypt
\* and goes on (best effort): C22 does not hold of it.
RECURSIVE parse_lines_best_effort(_, _, _, _, _)
parse_lines_best_effort(m, content, path, line_num, vars) ==
    IF line_num > Len(content) THEN Ok(vars)
    ELSE
      LET line == trim(content[line_num])
          kv == split_once(line, "=")
      IN  IF line = <<>> \/ starts_with(line, <<"#">>) \/ ~IsSome(kv)
          THEN parse_lines_best_effort(m, content, path, line_num + 1, vars)
          ELSE
            LET key == trim(Unwrap(kv)[1])
                raw == trim(Unwrap(kv)[2])
                value == IF is_quoted(raw) /\ Len(raw) > 1
                         THEN SubSeq(raw, 2, Len(raw) - 1)
                         ELSE raw
                decrypted == decrypt_value(m, value)
            IN  IF decrypted.tag = "Err"
                THEN parse_lines_best_effort(m, content, path, line_num + 1, vars)
                ELSE parse_lines_best_effort(m, content, path, line_num + 1,
                                             insert(vars, key, decrypted.val))


RECURSIVE parse_lines(_, _, _, _, _)
parse_lines(m, content, path, line_num, vars) ==
    IF line_num > Len(content) THEN Ok(vars)
    ELSE
      LET line == trim(content[line_num])
          kv == split_once(line, "=")
      IN  IF line = <<>> \/ starts_with(line, <<"#">>) \/ ~IsSome(kv)
          THEN parse_lines(m, content, path, line_num + 1, vars)
          ELSE
            LET key == trim(Unwrap(kv)[1])
                raw == trim(Unwrap(kv)[2])
            IN  IF is_quoted(raw) /\ Len(raw) = 1
                THEN Panic("slice index starts at 1 but ends at 0")
                ELSE
                  LET value == IF is_quoted(raw)
                               THEN SubSeq(raw, 2, Len(raw) - 1)
                               ELSE raw
                      decrypted == decrypt_value(m, value)
                  IN  IF decrypted.tag = "Err"
                      THEN Err([kind |-> "EnvFileParseFailed", path |-> path,
                                line |-> line_num, key |-> key])
                      ELSE parse_lines(m, content, path, line_num + 1,
                                       insert(vars, key, decrypted.val))

parse_and_decrypt(m, content, path) == parse_lines(m, content, path, 1, EmptyMap)

load_env_file(m, d, path) ==
    LET content == read_to_string(d, path)
    IN  IF content.tag = "Err"
        THEN Err([kind |-> "EnvFileReadFailed", path |-> path])
        ELSE parse_and_decrypt(m, content.val, path)

(***************************************************************************)
(* Dimension resolution: the resolve_env, resolve_os, ... functions.       *)
(***************************************************************************)
env_keys == << <<"DOTENVAGE_ENV">>, <<"EKG_ENV">>, <<"VERCEL_ENV">>, <<"NODE_ENV">> >>
os_keys == << <<"DOTENVAGE_OS">>, <<"EKG_OS">> >>
arch_keys == << <<"DOTENVAGE_ARCH">>, <<"EKG_ARCH">> >>
user_keys == << <<"DOTENVAGE_USER">>, <<"EKG_USER">> >>
variant_keys == << <<"DOTENVAGE_VARIANT">>, <<"EKG_VARIANT">>, <<"VARIANT">> >>

\* The runtime constant std::env::consts::OS of the build.
consts_OS == <<"linux">>

\* a.or_else(|| var_nonempty(k)) folded over a list of keys
RECURSIVE first_nonempty(_, _)
first_nonempty(e, keys) ==
    IF keys = <<>> THEN None
    ELSE OrElse(var_nonempty(e, keys[1]), first_nonempty(e, Tail(keys)))

\* A faulty Arch table, one whose canonical name of AMD64 holds a hyphen:
\* C17 does not hold of it.
Arch_from_str_hyphen(s) ==
    LET l == to_lowercase(s)
    IN  IF l \in {<<"amd64">>, <<"x64">>, <<"x86_64">>} THEN Some(<<"x86", "-", "64">>)
        ELSE IF l \in {<<"arm64">>, <<"aarch64">>} THEN Some(<<"arm64">>)
        ELSE None

\* <Arch as FromStr>::from_str followed by to_string
Arch_from_str(s) ==
    LET l == to_lowercase(s)
    IN  IF l \in {<<"amd64">>, <<"x64">>, <<"x86_64">>} THEN Some(<<"amd64">>)
        ELSE IF l \in {<<"arm64">>, <<"aarch64">>} THEN Some(<<"arm64">>)
        ELSE IF l \in {<<"arm">>, <<"armv7">>, <<"armv7l">>, <<"armhf">>} THEN Some(<<"arm">>)
        ELSE IF l \in {<<"i386">>, <<"i686">>, <<"x86">>} THEN Some(<<"i386">>)
        ELSE IF l \in {<<"riscv64">>, <<"riscv64gc">>} THEN Some(<<"riscv64">>)
        ELSE IF l \in {<<"ppc64le">>, <<"powerpc64le">>} THEN Some(<<"ppc64le">>)
        ELSE IF l = <<"s390x">> THEN Some(<<"s390x">>)
        ELSE None

\* <Os as FromStr>::from_str followed by to_string
Os_from_str(s) ==
    LET l == to_lowercase(s)
    IN  IF l = <<"linux">> THEN Some(<<"linux">>)
        ELSE IF l \in {<<"macos">>, <<"darwin">>, <<"osx">>} THEN Some(<<"macos">>)
        ELSE IF l \in {<<"windows">>, <<"win32">>, <<"win">>} THEN Some(<<"windows">>)
        ELSE IF l \in {<<"freebsd">>, <<"openbsd">>, <<"netbsd">>, <<"android">>, <<"ios">>}
        THEN Some(l)
        ELSE None

resolve_env(e) ==
    LET v == first_nonempty(e, env_keys)
    IN  IF IsSome(v) THEN to_lowercase(Unwrap(v)) ELSE <<"local">>

resolve_arch(e) ==
    LET target == var_nonempty(e, <<"TARGET">>)
        platform == var_nonempty(e, <<"TARGETPLATFORM">>)
        arch ==
          OrElse(var_nonempty(e, <<"DOTENVAGE_ARCH">>),
          OrElse(var_nonempty(e, <<"EKG_ARCH">>),
          OrElse(var_nonempty(e, <<"CARGO_CFG_TARGET_ARCH">>),
          OrElse(IF IsSome(target) THEN nth(split(Unwrap(target), "-"), 0) ELSE None,
          OrElse(var_nonempty(e, <<"TARGETARCH">>),
          OrElse(IF IsSome(platform) THEN nth(split(Unwrap(platform), "/"), 1) ELSE None,
                 var_nonempty(e, <<"RUNNER_ARCH">>)))))))
    IN  IF ~IsSome(arch) THEN None
        ELSE Some(IF IsSome(Arch_from_str(Unwrap(arch)))
                  THEN Unwrap(Arch_from_str(Unwrap(arch)))
                  ELSE to_lowercase(Unwrap(arch)))

resolve_os(e) ==
    LET target == var_nonempty(e, <<"TARGET">>)
        os ==
          OrElse(var_nonempty(e, <<"DOTENVAGE_OS">>),
          OrElse(var_nonempty(e, <<"EKG_OS">>),
          OrElse(var_nonempty(e, <<"CARGO_CFG_TARGET_OS">>),
          OrElse(IF IsSome(target) THEN nth(split(Unwrap(target), "-"), 2) ELSE None,
          OrElse(var_nonempty(e, <<"RUNNER_OS">>),
                 Some(consts_OS))))))
    IN  Some(IF IsSome(Os_from_str(Unwrap(os)))
             THEN Unwrap(Os_from_str(Unwrap(os)))
             ELSE to_lowercase(Unwrap(os)))

resolve_user(e) ==
    LET u == first_nonempty(e, << <<"DOTENVAGE_USER">>, <<"EKG_USER">>, <<"GITHUB_ACTOR">>,
                                  <<"GITHUB_TRIGGERING_ACTOR">>, <<"GITHUB_REPOSITORY_OWNER">>,
                                  <<"USER">>, <<"USERNAME">> >>)
    IN  IF IsSome(u) THEN Some(to_lowercase(Unwrap(u))) ELSE None

resolve_variant(e) ==
    LET v == first_nonempty(e, variant_keys)
    IN  IF IsSome(v) THEN Some(to_lowercase(Unwrap(v))) ELSE None

is_ascii_digit(t) == t \in {"0", "1", "2", "3", "4", "5", "6", "7", "8", "9"}

RECURSIVE leading_digits(_)
leading_digits(s) ==
    IF s # <<>> /\ is_ascii_digit(s[1]) THEN <<s[1]>> \o leading_digits(Tail(s)) ELSE <<>>

\* A faulty resolve_pr_number, one that reads PR_NUMBER whatever the event
\* is: C15 does not hold of it.
resolve_pr_number_ungated(e) ==
    LET pr == var_nonempty(e, <<"PR_NUMBER">>)
        gref == var(e, <<"GITHUB_REF">>)
    IN  IF IsSome(pr) THEN pr
        ELSE IF IsSome(gref) /\ find(Unwrap(gref), "/pull/") # 0
        THEN LET idx == find(Unwrap(gref), "/pull/")
                 pr_number == leading_digits(SubSeq(Unwrap(gref), idx + 1, Len(Unwrap(gref))))
             IN  IF pr_number # <<>> THEN Some(pr_number) ELSE None
        ELSE None

resolve_pr_number(e) ==
    LET event == var(e, <<"GITHUB_EVENT_NAME">>)
        pr == var_nonempty(e, <<"PR_NUMBER">>)
        gref == var(e, <<"GITHUB_REF">>)
    IN  IF IsSome(event) /\ starts_with(Unwrap(event), <<"pull_request">>) /\ IsSome(pr)
        THEN pr
        ELSE IF IsSome(gref) /\ find(Unwrap(gref), "/pull/") # 0
        THEN LET idx == find(Unwrap(gref), "/pull/")
                 pr_number == leading_digits(SubSeq(Unwrap(gref), idx + 1, Len(Unwrap(gref))))
             IN  IF pr_number # <<>> THEN Some(pr_number) ELSE None
        ELSE None

(***************************************************************************)
(* Discovery of dimension configuration inside files.                      *)
(***************************************************************************)
\* EnvLoader::find_key_value_in_content: the scan of the raw lines; a line
\* without '=' ends the scan with None (the `?` on split_once).
RECURSIVE find_key_value_from(_, _, _)
find_key_value_from(content, key, i) ==
    IF i > Len(content) THEN None
    ELSE
      LET line == trim(content[i])
          kv == split_once(line, "=")
      IN  IF line = <<>> \/ starts_with(line, <<"#">>)
          THEN find_key_value_from(content, key, i + 1)
          ELSE IF ~IsSome(kv) THEN None
          ELSE
            LET line_key == trim(Unwrap(kv)[1])
                value == trim_matches(trim_matches(trim(Unwrap(kv)[2]), "\""), "'")
            IN  IF line_key # key \/ value = <<>> \/ is_encrypted(value)
                THEN find_key_value_from(content, key, i + 1)
                ELSE Some(value)

find_key_value_in_content(content, key) == find_key_value_from(content, key, 1)

\* EnvLoader::find_env_config_in_file
RECURSIVE find_env_config_from(_, _)
find_env_config_from(content, keys) ==
    IF keys = <<>> THEN None
    ELSE LET v == find_key_value_in_content(content, keys[1])
         IN  IF IsSome(v) THEN Some(<<keys[1], Unwrap(v)>>)
             ELSE find_env_config_from(content, Tail(keys))

find_env_config_in_file(d, file_path) ==
    LET content == read_to_string(d, file_path)
    IN  IF content.tag = "Err" THEN None
        ELSE find_env_config_from(content.val, env_keys)

\* EnvLoader::discover_env_from_env_file: the environment it leaves.  The
\* file opened is dir.join(".env"), the exact name.
discover_env_from_env_file(d, e) ==
    IF \E i \in 1..Len(env_keys) : IsSome(var(e, env_keys[i]))
    THEN e
    ELSE LET config_key == find_env_config_in_file(d, <<".env">>)
         IN  IF IsSome(config_key)
             THEN set_var(e, Unwrap(config_key)[1], Unwrap(config_key)[2])
             ELSE e

\* One block of discover_dimensions_from_vars: the first key of the
\* dimension, in priority order, that the loaded map gives a non-empty value
\* not recognised as encrypted, unless a key of the dimension is set.
RECURSIVE first_in_vars(_, _)
first_in_vars(vars, keys) ==
    IF keys = <<>> THEN <<>>
    ELSE IF /\ keys[1] \in DOMAIN vars
            /\ vars[keys[1]] # <<>>
            /\ ~is_encrypted(vars[keys[1]])
         THEN << <<keys[1], vars[keys[1]]>> >>
         ELSE first_in_vars(vars, Tail(keys))

\* A faulty block, one that lets a file override a configured dimension:
\* C4 does not hold of it.
discover_unguarded(e, vars, keys) == first_in_vars(vars, keys)

discover_dimension(e, vars, keys) ==
    IF \E i \in 1..Len(keys) : IsSome(var_nonempty(e, keys[i]))
    THEN <<>>
    ELSE first_in_vars(vars, keys)

\* A faulty discovery, one that hands every pair of the loaded map to the
\* environment: C3 does not hold of it.
RECURSIVE pairs_of(_, _)
pairs_of(m, keys) ==
    IF keys = {} THEN <<>>
    ELSE LET k == CHOOSE x \in keys : TRUE
         IN  << <<k, m[k]>> >> \o pairs_of(m, keys \ {k})

discover_every_var(e, vars) == pairs_of(vars, DOMAIN vars)

\* EnvLoader::discover_dimensions_from_vars
discover_dimensions_from_vars(e, vars) ==
    discover_dimension(e, vars, env_keys)
      \o discover_dimension(e, vars, os_keys)
      \o discover_dimension(e, vars, arch_keys)
      \o discover_dimension(e, vars, user_keys)
      \o discover_dimension(e, vars, variant_keys)

\* A faulty set_all, one that sets nothing: C6 does not hold of it.
set_none(e, pairs) == e

\* for (key, value) in discovered { set_var(&key, &value) }
RECURSIVE set_all(_, _)
set_all(e, pairs) ==
    IF pairs = <<>> THEN e
    ELSE set_all(set_var(e, pairs[1][1], pairs[1][2]), Tail(pairs))

(***************************************************************************)
(* EnvLoader::resolve_env_paths                                            *)
(***************************************************************************)
DimCount == 5

Bit(mask, i) == (mask \div (2 ^ i)) % 2 = 1

\* The resolved dimensions in canonical order ENV, OS, ARCH, USER, VARIANT,
\* each an Option.
resolve_dimensions(e) ==
    << Some(resolve_env(e)), resolve_os(e), resolve_arch(e), resolve_user(e),
       resolve_variant(e) >>

\* A faulty mask_parts, one that leaves an unresolved dimension out of the
\* name instead of skipping the mask: C12 does not hold of it.
RECURSIVE mask_parts_lenient(_, _, _)
mask_parts_lenient(dims, mask, i) ==
    IF i >= DimCount THEN Some(<<>>)
    ELSE LET rest == mask_parts_lenient(dims, mask, i + 1)
         IN  IF ~Bit(mask, i) \/ ~IsSome(dims[i + 1]) THEN rest
             ELSE Some(<<Unwrap(dims[i + 1])>> \o Unwrap(rest))

\* The parts pushed for one mask, or None when the mask needs a dimension
\* that did not resolve (`continue`).
RECURSIVE mask_parts(_, _, _)
mask_parts(dims, mask, i) ==
    IF i >= DimCount THEN Some(<<>>)
    ELSE LET rest == mask_parts(dims, mask, i + 1)
         IN  IF ~Bit(mask, i) THEN rest
             ELSE IF ~IsSome(dims[i + 1]) \/ ~IsSome(rest) THEN None
             ELSE Some(<<Unwrap(dims[i + 1])>> \o Unwrap(rest))

\* The file names looked up, in order: .env, one name per mask 1..31 whose
\* dimensions resolved, and the PR name.
RECURSIVE mask_names(_, _)
mask_names(dims, mask) ==
    IF mask >= 2 ^ DimCount THEN <<>>
    ELSE LET parts == mask_parts(dims, mask, 0)
         IN  (IF IsSome(parts)
              THEN << <<".env", ".">> \o join(Unwrap(parts), <<".">>) >>
              ELSE <<>>) \o mask_names(dims, mask + 1)

candidate_names(e) ==
    << <<".env">> >>
      \o mask_names(resolve_dimensions(e), 1)
      \o (IF IsSome(resolve_pr_number(e))
          THEN << <<".env", ".", "pr", "-">> \o Unwrap(resolve_pr_number(e)) >>
          ELSE <<>>)

RECURSIVE add_all(_, _, _)
add_all(d, paths, names) ==
    IF names = <<>> THEN paths
    ELSE add_all(d, add_exact_if_exist(d, paths, names[1]), Tail(names))

\* resolve_env_paths changes the environment (discover_env_from_env_file)
\* before it resolves: env is the environment it leaves, paths its result,
\* names the file names it looked up and dims what it resolved.
paths_for(d, e1, names) ==
    [env |-> e1, paths |-> add_all(d, <<>>, names), names |-> names,
     dims |-> resolve_dimensions(e1)]

resolve_env_paths(d, e) ==
    LET e1 == discover_env_from_env_file(d, e)
    IN  paths_for(d, e1, candidate_names(e1))

(***************************************************************************)
(* save_dimension_env_vars / restore_dimension_env_vars                    *)
(***************************************************************************)
dimension_keys == env_keys \o os_keys \o arch_keys \o user_keys \o variant_keys

DimensionKeySet == {dimension_keys[i] : i \in 1..Len(dimension_keys)}

\* keys.iter().map(|&k| (k, std::env::var(k).ok())).collect()
save_dimension_env_vars(e) == [k \in DimensionKeySet |-> var(e, k)]

\* A faulty restore, one that leaves the environment as it is: C27 does
\* not hold of it.
restore_nothing(e, saved) == e

\* Some(v) => set_var(key, v), None => remove_var(key), for every saved key
restore_dimension_env_vars(e, saved) ==
    [x \in ((DOMAIN e) \ {k \in DOMAIN saved : ~IsSome(saved[k])})
             \cup {k \in DOMAIN saved : IsSome(saved[k])} |->
        IF x \in DOMAIN saved THEN Unwrap(saved[x]) ELSE e[x]]

(***************************************************************************)
(* The state.  One process runs collect_all_vars_from_dir and then, begun  *)
(* again from the same environment and directory, load_from_dir.           *)
(***************************************************************************)
VARIABLES
    dir,            \* the directory: entries [name, content] in read_dir order
    manager,        \* EnvLoader.manager: the identity held
    env,            \* the process environment
    env0,           \* the process environment when the running call began
    op,             \* the operation running: "collect" or "load"
    pc,             \* "idle" (not begun), "loop" (in the loop), "returned"
    env_vars,       \* the local env_vars
    loaded_files,   \* the local loaded_files
    loaded_order,   \* the local loaded_order (collect_all_vars_from_dir only)
    saved_env,      \* the local saved_env (collect_all_vars_from_dir only)
    result,         \* the value returned, or the panic
    trace,          \* history: per file loaded, its path, the environment
                    \*   before its discovery step, what was discovered and
                    \*   the dimensions of the generation that chose it
    gen,            \* history: the last candidate generation
    iters,          \* history: iterations of the loop begun so far
    collected,      \* what collect_all_vars_from_dir returned and left
    input,          \* the string handed to the next SecretManager call
    calls,          \* history: the SecretManager calls made, each with the
                    \*   identity held, its argument and what it returned
    key_files,      \* the key files of the state directory, by key name
    invocations     \* the calls of collect_all_vars_from_dir that run as
                    \*   threads of one process, each with its locals

vars == <<dir, manager, env, env0, op, pc, env_vars, loaded_files, loaded_order,
          saved_env, result, trace, gen, iters, collected, input, calls, key_files,
          invocations>>

NoGen == [names |-> <<>>, paths |-> <<>>, dims |-> <<>>]
NoResult == [tag |-> "None"]

\* candidate_paths.into_iter().find(|p| !loaded_files.contains(p) && p.exists())
RECURSIVE next_file_from(_, _, _)
next_file_from(paths, loaded, i) ==
    IF i > Len(paths) THEN None
    ELSE IF paths[i] \notin loaded THEN Some(paths[i])
    ELSE next_file_from(paths, loaded, i + 1)

\* A faulty find, one that looks at the first candidate only: C24 does not
\* hold of it.
next_file_first_only(paths, loaded) ==
    IF paths # <<>> /\ paths[1] \notin loaded THEN Some(paths[1]) ELSE None

next_file(paths, loaded) == next_file_from(paths, loaded, 1)

\* A faulty merge, one that keeps the value a key already has: C7 does not
\* hold of it.
merge_keep_first(acc, more) == extend(more, acc)

\* env_vars.extend(vars.clone())
merge(acc, more) == extend(acc, more)

\* A faulty mark_loaded, one that forgets the path: C9 does not hold of it.
mark_nothing(loaded, path) == loaded

\* loaded_files.insert(path)
mark_loaded(loaded, path) == loaded \cup {path}

Visit(path, e, found, dims) ==
    [path |-> path, env |-> e, discovered |-> found, dims |-> dims]

(***************************************************************************)
(* collect_all_vars_from_dir                                               *)
(***************************************************************************)
\* Entry, save, and Steps 1-2: the base .env and its discovery.
CollectBegin ==
    /\ op = "collect" /\ pc = "idle"
    /\ saved_env' = save_dimension_env_vars(env)
    /\ LET base_path == find_file_case_insensitive(dir, <<".env">>)
       IN  IF ~IsSome(base_path)
           THEN /\ pc' = "loop"
                /\ UNCHANGED <<env, env_vars, loaded_files, loaded_order, result, trace>>
           ELSE \E loaded \in {load_env_file(manager, dir, Unwrap(base_path))} :
                    IF loaded.tag # "Ok"
                    THEN /\ pc' = "returned"
                         /\ result' = loaded
                         /\ UNCHANGED <<env, env_vars, loaded_files, loaded_order, trace>>
                    ELSE LET found == discover_dimensions_from_vars(env, loaded.val)
                         IN  /\ pc' = "loop"
                             /\ env_vars' = merge(env_vars, loaded.val)
                             /\ loaded_order' = Append(loaded_order, Unwrap(base_path))
                             /\ loaded_files' = mark_loaded(loaded_files, Unwrap(base_path))
                             /\ env' = set_all(env, found)
                             /\ trace' = Append(trace, Visit(Unwrap(base_path), env, found, <<>>))
                             /\ UNCHANGED result
    /\ UNCHANGED <<invocations, key_files, input, calls, dir, manager, env0, op, gen, iters, collected>>

\* One iteration of the loop that finds a next file and loads it.
CollectLoadNext ==
    /\ op = "collect" /\ pc = "loop"
    /\ \E g \in {resolve_env_paths(dir, env)} :
       \E path \in {next_file(g.paths, loaded_files)} :
           /\ IsSome(path)
           /\ gen' = [names |-> g.names, paths |-> g.paths, dims |-> g.dims]
           /\ iters' = iters + 1
           /\ \E loaded \in {load_env_file(manager, dir, Unwrap(path))} :
                  IF loaded.tag # "Ok"
                  THEN /\ pc' = "returned"
                       /\ result' = loaded
                       /\ env' = g.env
                       /\ UNCHANGED <<env_vars, loaded_files, loaded_order, trace>>
                  ELSE LET found == discover_dimensions_from_vars(g.env, loaded.val)
                       IN  /\ env_vars' = merge(env_vars, loaded.val)
                           /\ loaded_order' = Append(loaded_order, Unwrap(path))
                           /\ loaded_files' = mark_loaded(loaded_files, Unwrap(path))
                           /\ env' = set_all(g.env, found)
                           /\ trace' = Append(trace, Visit(Unwrap(path), g.env, found, g.dims))
                           /\ UNCHANGED <<pc, result>>
    /\ UNCHANGED <<invocations, key_files, input, calls, dir, manager, env0, op, saved_env, collected>>

\* The iteration that finds no next file: break, restore, return.
CollectReturn ==
    /\ op = "collect" /\ pc = "loop"
    /\ \E g \in {resolve_env_paths(dir, env)} :
           /\ ~IsSome(next_file(g.paths, loaded_files))
           /\ gen' = [names |-> g.names, paths |-> g.paths, dims |-> g.dims]
           /\ env' = restore_dimension_env_vars(g.env, saved_env)
    /\ iters' = iters + 1
    /\ pc' = "returned"
    /\ result' = Ok(<<env_vars, loaded_order>>)
    /\ UNCHANGED <<invocations, key_files, input, calls, dir, manager, env0, op, env_vars, loaded_files, loaded_order,
                   saved_env, trace, collected>>

(***************************************************************************)
(* load_from_dir                                                           *)
(***************************************************************************)
\* Entry and Steps 1-2: the base .env and its discovery.
LoadBegin ==
    /\ op = "load" /\ pc = "idle"
    /\ LET base_path == find_file_case_insensitive(dir, <<".env">>)
       IN  IF ~IsSome(base_path)
           THEN /\ pc' = "loop"
                /\ UNCHANGED <<env, env_vars, loaded_files, result, trace>>
           ELSE \E loaded \in {load_env_file(manager, dir, Unwrap(base_path))} :
                    IF loaded.tag # "Ok"
                    THEN /\ pc' = "returned"
                         /\ result' = loaded
                         /\ UNCHANGED <<env, env_vars, loaded_files, trace>>
                    ELSE LET found == discover_dimensions_from_vars(env, loaded.val)
                         IN  /\ pc' = "loop"
                             /\ env_vars' = merge(env_vars, loaded.val)
                             /\ loaded_files' = mark_loaded(loaded_files, Unwrap(base_path))
                             /\ env' = set_all(env, found)
                             /\ trace' = Append(trace, Visit(Unwrap(base_path), env, found, <<>>))
                             /\ UNCHANGED result
    /\ UNCHANGED <<invocations, key_files, input, calls, dir, manager, env0, op, loaded_order, saved_env, gen, iters, collected>>

\* One iteration of the loop that finds a next file and loads it.
LoadLoadNext ==
    /\ op = "load" /\ pc = "loop"
    /\ \E g \in {resolve_env_paths(dir, env)} :
       \E path \in {next_file(g.paths, loaded_files)} :
           /\ IsSome(path)
           /\ gen' = [names |-> g.names, paths |-> g.paths, dims |-> g.dims]
           /\ iters' = iters + 1
           /\ \E loaded \in {load_env_file(manager, dir, Unwrap(path))} :
                  IF loaded.tag # "Ok"
                  THEN /\ pc' = "returned"
                       /\ result' = loaded
                       /\ env' = g.env
                       /\ UNCHANGED <<env_vars, loaded_files, trace>>
                  ELSE LET found == discover_dimensions_from_vars(g.env, loaded.val)
                       IN  /\ env_vars' = merge(env_vars, loaded.val)
                           /\ loaded_files' = mark_loaded(loaded_files, Unwrap(path))
                           /\ env' = set_all(g.env, found)
                           /\ trace' = Append(trace, Visit(Unwrap(path), g.env, found, g.dims))
                           /\ UNCHANGED <<pc, result>>
    /\ UNCHANGED <<invocations, key_files, input, calls, dir, manager, env0, op, loaded_order, saved_env, collected>>

\* Step 4, for (k, v) in env_vars { set_var(k, v) }: every entry is set,
\* unless set_var panics on one; the entries set before the panic are any
\* subset of the others (HashMap iteration order).
export_outcomes(e, m) ==
    IF \E k \in DOMAIN m : set_var_panics(k)
    THEN {[tag |-> "Panic",
           env |-> extend(e, [k \in S |-> m[k]])] :
             S \in SUBSET {k \in DOMAIN m : ~set_var_panics(k)}}
    ELSE {[tag |-> "Ok", env |-> extend(e, m)]}

\* The iteration that finds no next file: break, export, return.
LoadReturn ==
    /\ op = "load" /\ pc = "loop"
    /\ \E g \in {resolve_env_paths(dir, env)} :
           /\ ~IsSome(next_file(g.paths, loaded_files))
           /\ gen' = [names |-> g.names, paths |-> g.paths, dims |-> g.dims]
           /\ \E out \in export_outcomes(g.env, env_vars) :
                /\ env' = out.env
                /\ result' = IF out.tag = "Ok" THEN Ok(<<>>)
                             ELSE Panic("failed to set environment variable")
    /\ iters' = iters + 1
    /\ pc' = "returned"
    /\ UNCHANGED <<invocations, key_files, input, calls, dir, manager, env0, op, env_vars, loaded_files, loaded_order,
                   saved_env, trace, collected>>

\* The process is begun again from the same environment and directory,
\* this time to run load_from_dir; what the first call did is kept.
Respawn ==
    /\ op = "collect" /\ pc = "returned"
    /\ collected' = [result |-> result, env |-> env, env_vars |-> env_vars,
                     trace |-> trace, gen |-> gen, iters |-> iters]
    /\ op' = "load"
    /\ pc' = "idle"
    /\ env' = env0
    /\ env_vars' = EmptyMap
    /\ loaded_files' = {}
    /\ loaded_order' = <<>>
    /\ saved_env' = EmptyMap
    /\ result' = NoResult
    /\ trace' = <<>>
    /\ gen' = NoGen
    /\ iters' = 0
    /\ UNCHANGED <<invocations, key_files, input, calls, dir, manager, env0>>

(***************************************************************************)
(* The directories and environments explored.                              *)
(***************************************************************************)
MaxFiles == 3

Line(k, v) == <<k, "=">> \o v
Enc(id, plain) == encrypt_value([identity |-> id], plain).val

File(rank, name, content) == [rank |-> rank, name |-> name, content |-> content]

FilePool ==
    { File(1, <<".env">>, << Line("NODE_ENV", <<"p">>), Line("FOO", <<"1">>) >>),
      File(1, <<".env">>, << Line("DOTENVAGE_ENV", Enc("k1", <<"s">>)), Line("NODE_ENV", <<"p">>) >>),
      File(1, <<".env">>, << Line("DOTENVAGE_ENV", <<"s">>), Line("NODE_ENV", <<"p">>) >>),
      File(1, <<".env">>, << Line("DOTENVAGE_USER", <<"b">>), Line("FOO", <<"1">>) >>),
      File(1, <<".env">>, << <<"=", "v">>, Line("BAR", <<"1">>) >>),
      File(1, <<".env">>, << Line("NODE_ENV", <<"p">>), Line("NODE_ENV", <<>>) >>),
      File(1, <<".env">>, << Line("NODE_ENV", <<"s">>), Line("FOO", <<"0xFF">>) >>),
      File(2, <<".ENV">>, << Line("FOO", <<"9">>) >>),
      File(3, <<".env", ".", "p">>,
           << <<"#", " ", "c">>, Line("VARIANT", <<"c">>), Line("FOO", <<"\"", "2", "\"">>) >>),
      File(3, <<".env", ".", "p">>, << Line("FOO", Enc("k2", <<"2">>)) >>),
      File(4, <<".env", ".", "p", ".", "c">>, << Line("FOO", <<"3">>), Line("BAR", <<"3">>) >>),
      File(5, <<".env", ".", "s">>, << Line("FOO", <<"4">>) >>),
      File(6, <<".env", ".", "local">>, << Line("EKG_VARIANT", <<"C">>), Line("FOO", <<"5">>) >>),
      File(7, <<".env", ".", "c">>, << Line("BAR", <<"6">>) >>),
      File(8, <<".env", ".", "b">>, << Line("FOO", <<"7">>) >>) }

\* The entries of a set of files in ascending (or descending) rank order.
RECURSIVE by_rank(_, _)
by_rank(S, up) ==
    IF S = {} THEN <<>>
    ELSE LET f == CHOOSE x \in S : \A y \in S : IF up THEN x.rank <= y.rank
                                                 ELSE x.rank >= y.rank
         IN  <<[name |-> f.name, content |-> f.content]>> \o by_rank(S \ {f}, up)

Directories ==
    LET sets == {S \in SUBSET FilePool :
                   /\ Cardinality(S) <= MaxFiles
                   /\ \A x, y \in S : x.rank = y.rank => x = y}
    IN  {by_rank(S, TRUE) : S \in sets}
          \cup {by_rank(S, FALSE) : S \in {T \in sets : \E x, y \in T :
                    x # y /\ to_lowercase(x.name) = to_lowercase(y.name)}}

\* An environment: a choice, per varied variable, of unset or one value.
Choices ==
    [ n : {None, Some(<<>>), Some(<<"P">>), Some(<<"0xFF">>)},
      u : {None, Some(<<"a">>)},
      v : {None, Some(<<"p">>)} ]

with_var(e, k, o) == IF IsSome(o) THEN set_var(e, k, Unwrap(o)) ELSE e

Environment(c) ==
    with_var(with_var(with_var(set_var(EmptyMap, <<"FOO">>, <<"e">>),
        <<"NODE_ENV">>, c.n), <<"USER">>, c.u), <<"VARIANT">>, c.v)

NothingCollected ==
    [result |-> NoResult, env |-> EmptyMap, env_vars |-> EmptyMap, trace |-> <<>>,
     gen |-> NoGen, iters |-> 0]

Init ==
    /\ dir \in Directories
    /\ manager = [identity |-> "k1"]
    /\ \E c \in Choices : env0 = Environment(c)
    /\ env = env0
    /\ op = "collect"
    /\ pc = "idle"
    /\ env_vars = EmptyMap
    /\ loaded_files = {}
    /\ loaded_order = <<>>
    /\ saved_env = EmptyMap
    /\ result = NoResult
    /\ trace = <<>>
    /\ gen = NoGen
    /\ iters = 0
    /\ collected = NothingCollected
    /\ input = <<>>
    /\ calls = <<>>
    /\ key_files = EmptyMap
    /\ invocations = <<>>

Next ==
    \/ CollectBegin
    \/ CollectLoadNext
    \/ CollectReturn
    \/ Respawn
    \/ LoadBegin
    \/ LoadLoadNext
    \/ LoadReturn

Spec == Init /\ [][Next]_vars

(***************************************************************************)
(* Vocabulary of the properties.                                           *)
(***************************************************************************)
Returned(o) == op = o /\ pc = "returned"

PathsOf(tr) == [i \in 1..Len(tr) |-> tr[i].path]

NoDuplicates(q) == \A i, j \in 1..Len(q) : i # j => q[i] # q[j]

\* A variable whose state differs between two environments.
Differs(e1, e2, k) ==
    \/ (k \in DOMAIN e1) # (k \in DOMAIN e2)
    \/ k \in DOMAIN e1 /\ k \in DOMAIN e2 /\ e1[k] # e2[k]

ChangedKeys == {k \in (DOMAIN env) \cup (DOMAIN env0) : Differs(env, env0, k)}

\* The map a file of the directory parses to (for a file that parses).
FileMap(path) ==
    LET i == CHOOSE j \in 1..Len(dir) : dir[j].name = path
    IN  parse_and_decrypt(manager, dir[i].content, path).val

\* The value as written in the file (trimmed, unquoted, not decrypted) on
\* the last line that defines the key: the line whose value the map keeps.
RECURSIVE stored_value_from(_, _, _)
stored_value_from(content, key, i) ==
    IF i = 0 THEN None
    ELSE LET line == trim(content[i])
             kv == split_once(line, "=")
         IN  IF line # <<>> /\ ~starts_with(line, <<"#">>) /\ IsSome(kv)
                /\ trim(Unwrap(kv)[1]) = key
             THEN LET raw == trim(Unwrap(kv)[2])
                  IN  Some(IF is_quoted(raw) /\ Len(raw) > 1
                           THEN SubSeq(raw, 2, Len(raw) - 1) ELSE raw)
             ELSE stored_value_from(content, key, i - 1)

StoredValue(path, key) ==
    LET i == CHOOSE j \in 1..Len(dir) : dir[j].name = path
    IN  stored_value_from(dir[i].content, key, Len(dir[i].content))

StoredEncrypted(path, key) ==
    IsSome(StoredValue(path, key)) /\ is_encrypted(Unwrap(StoredValue(path, key)))

\* The configuration keys of the five dimensions, and every variable a
\* dimension is resolved from, in canonical order.
ConfigKeys == <<env_keys, os_keys, arch_keys, user_keys, variant_keys>>

SourceKeys ==
    << env_keys,
       os_keys \o << <<"CARGO_CFG_TARGET_OS">>, <<"TARGET">>, <<"RUNNER_OS">> >>,
       arch_keys \o << <<"CARGO_CFG_TARGET_ARCH">>, <<"TARGET">>, <<"TARGETARCH">>,
                       <<"TARGETPLATFORM">>, <<"RUNNER_ARCH">> >>,
       user_keys \o << <<"GITHUB_ACTOR">>, <<"GITHUB_TRIGGERING_ACTOR">>,
                       <<"GITHUB_REPOSITORY_OWNER">>, <<"USER">>, <<"USERNAME">> >>,
       variant_keys >>

Dimensions == 1..DimCount

(***************************************************************************)
(* C1.  After collect_all_vars_from_dir returns successfully the process   *)
(* environment equals the environment before the call: every dimension     *)
(* key has its pre-call value or is unset as before, and no other variable *)
(* is set or changed.                                                      *)
(***************************************************************************)
C1_EnvironmentUnchangedOnSuccess ==
    (Returned("collect") /\ result.tag = "Ok") => env = env0

(***************************************************************************)
(* C2.  When collect_all_vars_from_dir returns an error, every dimension   *)
(* configuration key of the process environment has its pre-call value.    *)
(***************************************************************************)
C2_DimensionKeysRestoredOnError ==
    (Returned("collect") /\ result.tag = "Err") =>
        \A k \in DimensionKeySet : ~Differs(env, env0, k)

(***************************************************************************)
(* C3 as claimed.  When load_from_dir returns an error, no key/value pair  *)
(* read from a file is present in the process environment as a result of   *)
(* the failed call.                                                        *)
(***************************************************************************)
C3_NoFilePairInEnvironmentOnError ==
    (Returned("load") /\ result.tag = "Err") =>
        \A k \in ChangedKeys : \A i \in 1..Len(trace) :
            ~(/\ k \in DOMAIN env
              /\ k \in DOMAIN FileMap(trace[i].path)
              /\ FileMap(trace[i].path)[k] = env[k])

(***************************************************************************)
(* C3 as amended.  When load_from_dir returns an error the merged map is   *)
(* not exported: every variable that is no dimension-configuration key has *)
(* its pre-call state, and a dimension-configuration key that changed      *)
(* holds a value the discovery steps of the files loaded before the        *)
(* failure (or the scan of .env by resolve_env_paths) set.                 *)
(***************************************************************************)
C3_OnlyDiscoveredKeysSetOnError ==
    (Returned("load") /\ result.tag = "Err") =>
        \A k \in ChangedKeys :
            /\ k \in DimensionKeySet
            /\ k \in DOMAIN env
            /\ \/ \E i \in 1..Len(trace) : \E n \in 1..Len(trace[i].discovered) :
                     trace[i].discovered[n] = <<k, env[k]>>
               \/ find_env_config_in_file(dir, <<".env">>) = Some(<<k, env[k]>>)

\* A failed load that had merged a file defining FOO and had discovered a
\* dimension key: FOO keeps its pre-call value, the discovered key is set.
C3_Witness ==
    /\ Returned("load") /\ result.tag = "Err"
    /\ <<"FOO">> \in DOMAIN env_vars
    /\ env_vars[<<"FOO">>] # env0[<<"FOO">>]
    /\ env[<<"FOO">>] = env0[<<"FOO">>]
    /\ ChangedKeys # {}

(***************************************************************************)
(* C4 as claimed.  A dimension that resolves from the process environment  *)
(* before the load starts, through any of its source variables, keeps that *)
(* value in every candidate generation of the load.                        *)
(***************************************************************************)
C4_AmbientDimensionWins ==
    gen.dims # <<>> =>
        \A d \in Dimensions :
            IsSome(first_nonempty(env0, SourceKeys[d])) =>
                gen.dims[d] = resolve_dimensions(env0)[d]

(***************************************************************************)
(* C4 as amended.  A dimension one of whose configuration keys             *)
(* (DOTENVAGE_x / EKG_x, and VERCEL_ENV, NODE_ENV, VARIANT) holds a        *)
(* non-empty value in the process environment before the load starts keeps *)
(* its resolved value in every candidate generation of the load, whatever  *)
(* the loaded files define.                                                *)
(***************************************************************************)
C4_ConfiguredDimensionWins ==
    gen.dims # <<>> =>
        \A d \in Dimensions :
            IsSome(first_nonempty(env0, ConfigKeys[d])) =>
                gen.dims[d] = resolve_dimensions(env0)[d]

\* NODE_ENV is set before the load, a loaded file gives DOTENVAGE_ENV (a key
\* of higher priority) another value, and the generation still uses NODE_ENV.
C4_Witness ==
    /\ pc = "returned" /\ result.tag = "Ok"
    /\ IsSome(var_nonempty(env0, <<"NODE_ENV">>))
    /\ \E i \in 1..Len(trace) :
          /\ <<"DOTENVAGE_ENV">> \in DOMAIN FileMap(trace[i].path)
          /\ to_lowercase(FileMap(trace[i].path)[<<"DOTENVAGE_ENV">>])
               # to_lowercase(env0[<<"NODE_ENV">>])
    /\ gen.dims[1] = Some(to_lowercase(env0[<<"NODE_ENV">>]))

(***************************************************************************)
(* C5.  A dimension-configuration key whose value is stored encrypted in   *)
(* a file is never used for discovery, also when the loader's identity     *)
(* can decrypt it.                                                         *)
(***************************************************************************)
C5_EncryptedDimensionIgnored ==
    \A i \in 1..Len(trace) : \A n \in 1..Len(trace[i].discovered) :
        ~StoredEncrypted(trace[i].path, trace[i].discovered[n][1])

(***************************************************************************)
(* Vocabulary of C6: what a loaded file offers a dimension.                *)
(***************************************************************************)
\* The file's map gives the key a non-empty value that is plaintext in the
\* file and in the map.
OffersPlain(path, k) ==
    /\ k \in DOMAIN FileMap(path)
    /\ FileMap(path)[k] # <<>>
    /\ ~is_encrypted(FileMap(path)[k])
    /\ ~StoredEncrypted(path, k)

\* The file's map gives the key a non-empty value discovery accepts.
OffersValue(path, k) ==
    /\ k \in DOMAIN FileMap(path)
    /\ FileMap(path)[k] # <<>>
    /\ ~is_encrypted(FileMap(path)[k])

\* The canonical value of dimension d when key k alone holds v.
Canonical(d, k, v) == resolve_dimensions(set_var(EmptyMap, k, v))[d]

\* The dimensions of the candidate generation that follows the i-th load.
NextDims(i) == IF i < Len(trace) THEN trace[i + 1].dims ELSE gen.dims

\* The next generation uses key k of the i-th loaded file for dimension d,
\* and the existing file named for the value is loaded and merged.
Followed(i, d, k) ==
    LET value == Canonical(d, k, FileMap(trace[i].path)[k])
        named == IF IsSome(value)
                 THEN find_file_case_insensitive(dir, <<".env", ".">> \o Unwrap(value))
                 ELSE None
    IN  /\ NextDims(i)[d] = value
        /\ IsSome(named) =>
             /\ \E j \in 1..Len(trace) : trace[j].path = Unwrap(named)
             /\ DOMAIN FileMap(Unwrap(named)) \subseteq DOMAIN env_vars

(***************************************************************************)
(* C6 as claimed.  If a loaded file holds a plaintext non-empty value for  *)
(* a configuration key of a dimension none of whose configuration keys is  *)
(* set in the process environment, the next candidate generation uses that *)
(* value and the existing file named for it is loaded and merged.          *)
(***************************************************************************)
C6_AnyPlaintextKeyIsFollowed ==
    (pc = "returned" /\ result.tag = "Ok") =>
        \A i \in 1..Len(trace) : \A d \in Dimensions : \A n \in 1..Len(ConfigKeys[d]) :
            ( /\ \A m \in 1..Len(ConfigKeys[d]) : ConfigKeys[d][m] \notin DOMAIN trace[i].env
              /\ OffersPlain(trace[i].path, ConfigKeys[d][n]) )
            => Followed(i, d, ConfigKeys[d][n])

(***************************************************************************)
(* C6 as amended.  If a loaded file holds a plaintext non-empty value for  *)
(* a configuration key of a dimension none of whose configuration keys     *)
(* holds a non-empty value in the process environment at that moment, and  *)
(* the file's parsed map gives no higher-priority key of the dimension a   *)
(* non-empty value, then the next candidate generation of the same load    *)
(* uses that value and the existing file named for it is loaded, its keys  *)
(* appearing in the final merged map.                                      *)
(***************************************************************************)
C6_FirstPlaintextKeyIsFollowed ==
    (pc = "returned" /\ result.tag = "Ok") =>
        \A i \in 1..Len(trace) : \A d \in Dimensions : \A n \in 1..Len(ConfigKeys[d]) :
            ( /\ \A m \in 1..Len(ConfigKeys[d]) :
                    ~IsSome(var_nonempty(trace[i].env, ConfigKeys[d][m]))
              /\ OffersPlain(trace[i].path, ConfigKeys[d][n])
              /\ \A m \in 1..(n - 1) : ~OffersValue(trace[i].path, ConfigKeys[d][m]) )
            => Followed(i, d, ConfigKeys[d][n])

\* A chain: .env gives NODE_ENV, the file loaded for it gives VARIANT, and
\* the file named for both is the third one loaded.
C6_Witness ==
    /\ pc = "returned" /\ result.tag = "Ok"
    /\ Len(trace) = 3
    /\ OffersPlain(trace[1].path, <<"NODE_ENV">>)
    /\ <<"NODE_ENV">> \notin DOMAIN env0
    /\ OffersPlain(trace[2].path, <<"VARIANT">>)
    /\ <<"VARIANT">> \notin DOMAIN env0
    /\ trace[3].path = <<".env", ".", "p", ".", "c">>
    /\ <<"BAR">> \in DOMAIN env_vars

(***************************************************************************)
(* C7.  The merged map collect_all_vars_from_dir returns maps every key to *)
(* the value of the last file, in the returned load order, that defines    *)
(* it; a key defined in one file only is kept.                             *)
(***************************************************************************)
LastDefining(order, k) ==
    CHOOSE j \in 1..Len(order) :
        /\ k \in DOMAIN FileMap(order[j])
        /\ \A l \in (j + 1)..Len(order) : k \notin DOMAIN FileMap(order[l])

C7_LastFileWins ==
    (Returned("collect") /\ result.tag = "Ok") =>
        LET merged == result.val[1]
            order == result.val[2]
        IN  /\ DOMAIN merged = UNION {DOMAIN FileMap(order[j]) : j \in 1..Len(order)}
            /\ \A k \in DOMAIN merged : merged[k] = FileMap(order[LastDefining(order, k)])[k]

\* Two loaded files give FOO different values and a key is in the first only.
C7_Witness ==
    /\ Returned("collect") /\ result.tag = "Ok"
    /\ Len(result.val[2]) >= 2
    /\ <<"FOO">> \in DOMAIN FileMap(result.val[2][1])
    /\ <<"FOO">> \in DOMAIN FileMap(result.val[2][2])
    /\ FileMap(result.val[2][1])[<<"FOO">>] # FileMap(result.val[2][2])[<<"FOO">>]
    /\ <<"NODE_ENV">> \in DOMAIN FileMap(result.val[2][1])
    /\ <<"NODE_ENV">> \notin DOMAIN FileMap(result.val[2][2])

(***************************************************************************)
(* C8.  No file is loaded twice: the load order never holds a path twice,  *)
(* and the candidate list holds every matched file once, at the position   *)
(* of the first candidate name that matches it.                            *)
(***************************************************************************)
\* The index of the first candidate name that matches the path.
FirstMatch(path) ==
    CHOOSE n \in 1..Len(gen.names) :
        /\ find_file_case_insensitive(dir, gen.names[n]) = Some(path)
        /\ \A m \in 1..(n - 1) : find_file_case_insensitive(dir, gen.names[m]) # Some(path)

C8_NoDoubleLoad ==
    /\ NoDuplicates(loaded_order)
    /\ NoDuplicates(PathsOf(trace))
    /\ op = "collect" => loaded_order = PathsOf(trace)
    /\ NoDuplicates(gen.paths)
    /\ \A n \in 1..Len(gen.names) :
          IsSome(find_file_case_insensitive(dir, gen.names[n])) =>
              \E i \in 1..Len(gen.paths) :
                  gen.paths[i] = Unwrap(find_file_case_insensitive(dir, gen.names[n]))
    /\ \A i, j \in 1..Len(gen.paths) :
          i < j => FirstMatch(gen.paths[i]) < FirstMatch(gen.paths[j])

\* Two candidate names of one generation match the same file, the file was
\* loaded in an earlier iteration and is a candidate again.
C8_Witness ==
    /\ pc = "returned" /\ result.tag = "Ok"
    /\ Len(trace) >= 2
    /\ \E n1, n2 \in 1..Len(gen.names) :
          /\ n1 # n2
          /\ IsSome(find_file_case_insensitive(dir, gen.names[n1]))
          /\ find_file_case_insensitive(dir, gen.names[n1])
               = find_file_case_insensitive(dir, gen.names[n2])
          /\ \E j \in 1..Len(trace) :
                /\ Some(trace[j].path) = find_file_case_insensitive(dir, gen.names[n1])
                /\ j < Len(trace)

(***************************************************************************)
(* Vocabulary of C9.  iters counts the iterations of the loop begun, the   *)
(* one that ends the loop included.                                        *)
(***************************************************************************)
\* The files of the directory that matched a candidate name or the base
\* name and were loaded, and the files a candidate name of the last
\* generation matches.
MatchingFiles ==
    {trace[i].path : i \in 1..Len(trace)} \cup {gen.paths[i] : i \in 1..Len(gen.paths)}

\* An iteration of the loop ends it, or loads one file of the directory
\* that no earlier step of the call visited.
IterationLoadsOrEnds ==
    iters' = iters + 1 =>
        \/ pc' = "returned"
        \/ /\ pc' = "loop"
           /\ Len(trace') = Len(trace) + 1
           /\ trace'[Len(trace')].path \notin loaded_files
           /\ loaded_files' = loaded_files \cup {trace'[Len(trace')].path}
           /\ \E j \in 1..Len(dir) : dir[j].name = trace'[Len(trace')].path

(***************************************************************************)
(* C9 as claimed.  The number of iterations of the discovery loop is at    *)
(* most the number of files in the directory that match a candidate name.  *)
(***************************************************************************)
C9_IterationsAtMostMatchingFiles ==
    iters <= Cardinality(MatchingFiles)

(***************************************************************************)
(* C9 as amended.  The discovery loop halts: every iteration loads one     *)
(* existing file not visited before or ends the loop, so the iterations    *)
(* that load a file are at most the files of the directory that match a    *)
(* candidate name, and the iterations in all are at most one more (the     *)
(* iteration that finds nothing left and ends the loop).                   *)
(***************************************************************************)
C9_IterationsBounded ==
    /\ Cardinality(loaded_files) = Len(trace)
    /\ loaded_files \subseteq {dir[j].name : j \in 1..Len(dir)}
    /\ pc = "loop" => iters <= Len(trace)
    /\ iters <= Len(trace) + 1
    /\ iters <= Cardinality(MatchingFiles) + 1

C9_LoopHalts == []C9_IterationsBounded /\ [][IterationLoadsOrEnds]_vars

\* A call that loaded a file in each of two iterations and ended in a third,
\* with no base file loaded before the loop.
C9_Witness ==
    /\ pc = "returned" /\ result.tag = "Ok"
    /\ iters = 3 /\ Len(trace) = 2
    /\ \A i \in 1..Len(trace) : trace[i].dims # <<>>

(***************************************************************************)
(* C10.  From the same directory and environment load_from_dir and         *)
(* collect_all_vars_from_dir load the same files in the same order and     *)
(* build the same merged map, one fails exactly when the other fails, and  *)
(* the variables load_from_dir exports are the entries of the map          *)
(* collect_all_vars_from_dir returns.                                      *)
(***************************************************************************)
C10_LoadEqualsCollect ==
    Returned("load") =>
        /\ PathsOf(trace) = PathsOf(collected.trace)
        /\ env_vars = collected.env_vars
        /\ (result.tag = "Ok") = (collected.result.tag = "Ok")
        /\ result.tag = "Ok" =>
             /\ \A k \in DOMAIN collected.result.val[1] :
                   k \in DOMAIN env /\ env[k] = collected.result.val[1][k]
             /\ ChangedKeys \subseteq DOMAIN collected.result.val[1]

(***************************************************************************)
(* Path resolution on its own: one call of the five resolvers and of       *)
(* resolve_pr_number, then one call of resolve_env_paths, from an          *)
(* environment of at most MaxVars variables and one of a few directories.  *)
(***************************************************************************)
MaxVars == 3

Binding(k, v) == [key |-> <<k>>, value |-> v]

BindingPool ==
    { Binding("DOTENVAGE_ENV", <<"prod">>),
      Binding("DOTENVAGE_ENV", <<>>),
      Binding("DOTENVAGE_ENV", <<"pr", "-", "1", "2", "3">>),
      Binding("EKG_ENV", <<"PrOd">>),
      Binding("VERCEL_ENV", <<"s">>),
      Binding("NODE_ENV", <<"p">>),
      Binding("NODE_ENV", <<"0xFF">>),
      Binding("DOTENVAGE_OS", <<"macOS">>),
      Binding("DOTENVAGE_ARCH", <<"amd64">>),
      Binding("DOTENVAGE_ARCH", <<"docker", "-", "s3">>),
      Binding("TARGET", <<"x86_64", "-", "unknown", "-", "linux", "-", "gnu">>),
      Binding("TARGETPLATFORM", <<"linux", "/", "arm64">>),
      Binding("DOTENVAGE_USER", <<"alice">>),
      Binding("USER", <<"AlIcE">>),
      Binding("VARIANT", <<"v1", ".", "2">>),
      Binding("EKG_VARIANT", <<"C">>),
      Binding("GITHUB_EVENT_NAME", <<"pull_request", "_", "target">>),
      Binding("GITHUB_EVENT_NAME", <<"push">>),
      Binding("PR_NUMBER", <<"1", "2", "3">>),
      Binding("GITHUB_REF", <<"refs", "/pull/", "4", "5", "6", "/", "merge">>),
      Binding("GITHUB_REF", <<"refs", "/", "heads", "/", "main">>) }

\* The environment a set of bindings (no key twice) makes.
Bound(S) == [k \in {b.key : b \in S} |-> (CHOOSE b \in S : b.key = k).value]

ResolveEnvironments ==
    {Bound(S) : S \in {T \in SUBSET BindingPool :
                          /\ Cardinality(T) <= MaxVars
                          /\ \A x, y \in T : x.key = y.key => x = y}}

Empty(name) == [name |-> name, content |-> <<>>]

ResolveDirectories ==
    { << Empty(<<".env">>), Empty(<<".env", ".", "prod">>),
         Empty(<<".env", ".", "prod", "-", "alice">>),
         Empty(<<".env", ".", "prod", "-", "amd64", "-", "alice">>),
         Empty(<<".env", ".", "prod", ".", "amd64", ".", "alice">>) >>,
      << Empty(<<".ENV">>), Empty(<<".ENV", ".", "PROD">>), Empty(<<".env", ".", "prod">>),
         Empty(<<".ENV", ".", "PROD", ".", "ALICE">>) >>,
      << Empty(<<".env">>), Empty(<<".env", ".", "local">>), Empty(<<".env", ".", "amd64">>),
         Empty(<<".env", ".", "local", ".", "linux">>), Empty(<<".env", ".", "linux">>),
         Empty(<<".env", ".", "alice">>) >>,
      << Empty(<<".env", ".", "pr", "-", "1", "2", "3">>), Empty(<<".env">>),
         Empty(<<".env", ".", "pr", "-", "4", "5", "6">>), Empty(<<".env", ".", "linux">>),
         Empty(<<".env", ".", "pr", "-", "1", "2", "3", ".", "linux">>) >> }

ResolveInit ==
    /\ dir \in ResolveDirectories
    /\ manager = [identity |-> "k1"]
    /\ env0 \in ResolveEnvironments
    /\ env = env0
    /\ op = "resolve"
    /\ pc = "idle"
    /\ env_vars = EmptyMap
    /\ loaded_files = {}
    /\ loaded_order = <<>>
    /\ saved_env = EmptyMap
    /\ result = NoResult
    /\ trace = <<>>
    /\ gen = NoGen
    /\ iters = 0
    /\ collected = NothingCollected
    /\ input = <<>>
    /\ calls = <<>>
    /\ key_files = EmptyMap
    /\ invocations = <<>>

\* resolve_env(), resolve_os(), resolve_arch(), resolve_user(),
\* resolve_variant() and resolve_pr_number(), called one after the other.
ResolveDimensions ==
    /\ op = "resolve" /\ pc = "idle"
    /\ result' = Ok([dims |-> resolve_dimensions(env), pr |-> resolve_pr_number(env)])
    /\ pc' = "resolved"
    /\ UNCHANGED <<invocations, key_files, input, calls, dir, manager, env, env0, op, env_vars, loaded_files, loaded_order,
                   saved_env, trace, gen, iters, collected>>

\* loader.resolve_env_paths(dir)
ResolvePaths ==
    /\ op = "resolve" /\ pc = "resolved"
    /\ \E g \in {resolve_env_paths(dir, env)} :
           /\ gen' = [names |-> g.names, paths |-> g.paths, dims |-> g.dims]
           /\ env' = g.env
    /\ pc' = "returned"
    /\ UNCHANGED <<invocations, key_files, input, calls, dir, manager, env0, op, env_vars, loaded_files, loaded_order,
                   saved_env, result, trace, iters, collected>>

ResolveNext ==
    \/ ResolveDimensions
    \/ ResolvePaths

ResolveSpec == ResolveInit /\ [][ResolveNext]_vars

(***************************************************************************)
(* Vocabulary of the path-resolution properties.                           *)
(***************************************************************************)
Resolved == op = "resolve" /\ pc = "returned"

\* The index of a path in a list, 0 when it is not in it.
IndexOf(q, x) == IF \E i \in 1..Len(q) : q[i] = x
                 THEN CHOOSE i \in 1..Len(q) : q[i] = x
                 ELSE 0

\* The masks 1..31 whose dimensions all resolved in the generation.
ResolvedMasks == {m \in 1..(2 ^ DimCount - 1) : IsSome(mask_parts(gen.dims, m, 0))}

\* The file name of a mask with its parts joined by a separator.
NameWith(m, sep) == <<".env", ".">> \o join(Unwrap(mask_parts(gen.dims, m, 0)), <<sep>>)

\* The file of the directory a name matches, as an Option.
Matched(name) == find_file_case_insensitive(dir, name)

(***************************************************************************)
(* C11.  A file whose name joins the resolved dimension values with '-'    *)
(* instead of '.' is matched: every file of the directory named .env.      *)
(* followed by the values of a subset of the resolved dimensions joined    *)
(* with '-' is in the list resolve_env_paths returns, after .env.          *)
(***************************************************************************)
C11_HyphenNamesMatched ==
    Resolved =>
        \A m \in ResolvedMasks :
            IsSome(Matched(NameWith(m, "-"))) =>
                /\ IndexOf(gen.paths, Unwrap(Matched(NameWith(m, "-")))) > 0
                /\ IsSome(Matched(<<".env">>)) =>
                      IndexOf(gen.paths, Unwrap(Matched(<<".env">>)))
                        <= IndexOf(gen.paths, Unwrap(Matched(NameWith(m, "-"))))

(***************************************************************************)
(* Vocabulary of C12: the names a generation owes to the subsets of the    *)
(* dimensions that resolved.                                               *)
(***************************************************************************)
ResolvedDimensions == {d \in Dimensions : IsSome(gen.dims[d])}

\* The values of a set of resolved dimensions in the order ENV, OS, ARCH,
\* USER, VARIANT.
RECURSIVE values_of(_, _)
values_of(S, d) ==
    IF d > DimCount THEN <<>>
    ELSE (IF d \in S THEN <<Unwrap(gen.dims[d])>> ELSE <<>>) \o values_of(S, d + 1)

SubsetName(S) == <<".env", ".">> \o join(values_of(S, 1), <<".">>)

\* The names looked up between .env and the PR name.
SubsetNames ==
    SubSeq(gen.names, 2, Len(gen.names) - (IF IsSome(resolve_pr_number(env)) THEN 1 ELSE 0))

RECURSIVE BitCount(_)
BitCount(m) == IF m = 0 THEN 0 ELSE (m % 2) + BitCount(m \div 2)

\* The masks whose name matches the path, and the parts of the first one
\* (the one that put the path in the list); .env has no part.
MasksOf(path) == {m \in ResolvedMasks : Matched(NameWith(m, ".")) = Some(path)}

PartsOf(path) ==
    IF MasksOf(path) = {} THEN 0
    ELSE BitCount(CHOOSE m \in MasksOf(path) : \A n \in MasksOf(path) : m <= n)

(***************************************************************************)
(* C13.  The list resolve_env_paths returns is in specificity order: a     *)
(* file whose name has more dimension parts never comes before a file with *)
(* fewer parts.                                                            *)
(***************************************************************************)
C13_SpecificityOrder ==
    Resolved =>
        \A i, j \in 1..Len(gen.paths) :
            (i < j /\ MasksOf(gen.paths[i]) # {} /\ MasksOf(gen.paths[j]) # {})
                => PartsOf(gen.paths[i]) <= PartsOf(gen.paths[j])

(***************************************************************************)
(* A load in a pull-request context: collect_all_vars_from_dir and then    *)
(* load_from_dir with a PR number resolved from GITHUB_REF, in a directory *)
(* of at most MaxPrFiles files that can hold the PR file.                  *)
(***************************************************************************)
MaxPrFiles == 3

PrFilePool ==
    { File(1, <<".env">>, << Line("FOO", <<"1">>), Line("BAR", <<"1">>) >>),
      File(2, <<".env", ".", "pr", "-", "7">>, << Line("FOO", <<"2">>) >>),
      File(2, <<".env", ".", "pr", "-", "7">>,
           << Line("VARIANT", <<"c">>), Line("FOO", <<"2">>) >>),
      File(3, <<".env", ".", "c">>, << Line("FOO", <<"3">>) >>),
      File(4, <<".env", ".", "local">>, << Line("FOO", <<"4">>) >>),
      File(5, <<".env", ".", "linux">>, << Line("FOO", <<"5">>) >>),
      File(6, <<".env", ".", "pr", "-", "7", ".", "linux">>, << Line("BAR", <<"6">>) >>) }

PrDirectories ==
    {by_rank(S, TRUE) : S \in {T \in SUBSET PrFilePool :
                                  /\ Cardinality(T) <= MaxPrFiles
                                  /\ \A x, y \in T : x.rank = y.rank => x = y}}

PrEnvironments ==
    {Bound(S) : S \in SUBSET { Binding("GITHUB_REF", <<"refs", "/pull/", "7", "/", "merge">>),
                              Binding("DOTENVAGE_ENV", <<"pr", "-", "7">>),
                              Binding("VARIANT", <<"c">>) }}

PrInit ==
    /\ dir \in PrDirectories
    /\ manager = [identity |-> "k1"]
    /\ env0 \in PrEnvironments
    /\ env = env0
    /\ op = "collect"
    /\ pc = "idle"
    /\ env_vars = EmptyMap
    /\ loaded_files = {}
    /\ loaded_order = <<>>
    /\ saved_env = EmptyMap
    /\ result = NoResult
    /\ trace = <<>>
    /\ gen = NoGen
    /\ iters = 0
    /\ collected = NothingCollected
    /\ input = <<>>
    /\ calls = <<>>
    /\ key_files = EmptyMap
    /\ invocations = <<>>

PrSpec == PrInit /\ [][Next]_vars

\* The PR file of the directory, as an Option, when a PR number resolves.
PrFile ==
    IF IsSome(resolve_pr_number(env0))
    THEN Matched(<<".env", ".", "pr", "-">> \o Unwrap(resolve_pr_number(env0)))
    ELSE None

(***************************************************************************)
(* C14.  Whenever a PR number resolves and the file .env.pr-<n> exists,    *)
(* that path is the last element of resolve_env_paths and the file is the  *)
(* last one merged by load_from_dir / collect_all_vars_from_dir, so its    *)
(* values override every other file's for shared keys.                     *)
(***************************************************************************)
C14_PrFileLast ==
    (pc = "returned" /\ result.tag = "Ok" /\ IsSome(PrFile)) =>
        /\ gen.paths # <<>>
        /\ gen.paths[Len(gen.paths)] = Unwrap(PrFile)
        /\ trace # <<>>
        /\ trace[Len(trace)].path = Unwrap(PrFile)
        /\ \A k \in DOMAIN FileMap(Unwrap(PrFile)) :
              k \in DOMAIN env_vars /\ env_vars[k] = FileMap(Unwrap(PrFile))[k]

(***************************************************************************)
(* Vocabulary of the PR-number properties.                                 *)
(***************************************************************************)
\* The dimensions and the PR number have been resolved.
DimensionsResolved == op = "resolve" /\ pc \in {"resolved", "returned"}

\* GITHUB_EVENT_NAME is set and starts with pull_request.
InPullRequestEvent ==
    /\ <<"GITHUB_EVENT_NAME">> \in DOMAIN env0
    /\ env0[<<"GITHUB_EVENT_NAME">>] # <<>>
    /\ env0[<<"GITHUB_EVENT_NAME">>][1] = "pull_request"

\* The digits that follow the first /pull/ of GITHUB_REF, <<>> when there
\* are none.
RefDigits ==
    IF <<"GITHUB_REF">> \notin DOMAIN env0 THEN <<>>
    ELSE LET r == env0[<<"GITHUB_REF">>]
             at == {i \in 1..Len(r) : r[i] = "/pull/"}
         IN  IF at = {} THEN <<>>
             ELSE LET i == CHOOSE x \in at : \A y \in at : x <= y
                      run == {n \in 0..(Len(r) - i) :
                                 \A j \in (i + 1)..(i + n) : is_ascii_digit(r[j])}
                      n == CHOOSE x \in run : \A y \in run : y <= x
                  IN  SubSeq(r, i + 1, i + n)

\* The names resolve_env_paths looked up beyond .env and the names of the
\* masks: the PR name, if any.
PrNames == SubSeq(gen.names, 2 + Cardinality(ResolvedMasks), Len(gen.names))

FirstEntryLike(name) ==
    LET at == {i \in 1..Len(dir) : to_lowercase(dir[i].name) = to_lowercase(name)}
    IN  IF at = {} THEN None
        ELSE Some(dir[CHOOSE i \in at : \A j \in at : i <= j].name)

\* The environment with the values of the dimension keys lower-cased.
LowerCased(e) ==
    [k \in DOMAIN e |-> IF k \in DimensionKeySet THEN to_lowercase(e[k]) ELSE e[k]]

\* Some dimension key holds a value with an upper-case letter.
MixedCase(e) == LowerCased(e) # e

(***************************************************************************)
(* C16.  Candidate lookup is case-insensitive: a candidate name matches    *)
(* the first directory entry whose lower-cased name equals the lower-cased *)
(* candidate and the entry is returned under its on-disk name (.ENV and    *)
(* .ENV.PROD for the candidates .env and .env.prod), and mixed-case        *)
(* dimension values select the same files as their lower-case form.        *)
(***************************************************************************)
C16_CaseInsensitiveLookup ==
    Resolved =>
        /\ {gen.paths[j] : j \in 1..Len(gen.paths)}
             = {Unwrap(f) : f \in {FirstEntryLike(gen.names[i]) :
                                      i \in 1..Len(gen.names)} \ {None}}
        /\ MixedCase(env0) =>
              gen.paths = resolve_env_paths(dir, LowerCased(env0)).paths

\* With EKG_ENV=PrOd and USER=AlIcE the files .ENV, .ENV.PROD and
\* .ENV.PROD.ALICE were returned under their on-disk names, and .env.prod,
\* which follows .ENV.PROD in the directory, was not.
C16_Witness ==
    /\ Resolved
    /\ MixedCase(env0)
    /\ <<"EKG_ENV">> \in DOMAIN env0 /\ env0[<<"EKG_ENV">>] = <<"PrOd">>
    /\ gen.paths = << <<".ENV">>, <<".ENV", ".", "PROD">>,
                      <<".ENV", ".", "PROD", ".", "ALICE">> >>
    /\ \E i \in 1..Len(dir) : dir[i].name = <<".env", ".", "prod">>

(***************************************************************************)
(* Vocabulary of the separator properties.                                 *)
(***************************************************************************)
\* The value holds one of the separators of file names.
HasSeparator(v) == \E i \in 1..Len(v) : v[i] \in {".", "-"}

\* x is a contiguous part of s.
IsPartOf(x, s) ==
    \E a \in 1..(Len(s) + 1) : \E b \in (a - 1)..Len(s) : SubSeq(s, a, b) = x

\* The values the resolvers returned.
ResolvedValues ==
    {Unwrap(result.val.dims[i]) :
        i \in {j \in 1..DimCount : IsSome(result.val.dims[j])}}

NonEmptyEnvKeys ==
    {i \in 1..Len(env_keys) :
        env_keys[i] \in DOMAIN env0 /\ env0[env_keys[i]] # <<>>}

\* The value of the first ENV key set to a non-empty value.
FirstEnvValue ==
    env0[env_keys[CHOOSE i \in NonEmptyEnvKeys : \A j \in NonEmptyEnvKeys : i <= j]]

(***************************************************************************)
(* C18.  resolve_env returns the lower-cased value of the first non-empty  *)
(* variable among DOTENVAGE_ENV, EKG_ENV, VERCEL_ENV, NODE_ENV, in that    *)
(* order, and "local" exactly when all four are unset or empty; with .env  *)
(* and .env.local present and no ENV key set, both files are candidates in *)
(* that order.                                                             *)
(***************************************************************************)
C18_FirstNonEmptyEnvOrLocal ==
    /\ DimensionsResolved =>
          result.val.dims[1] =
              Some(IF NonEmptyEnvKeys = {} THEN <<"local">>
                   ELSE to_lowercase(FirstEnvValue))
    /\ (Resolved /\ NonEmptyEnvKeys = {}
          /\ IsSome(Matched(<<".env">>))
          /\ IsSome(Matched(<<".env", ".", "local">>))) =>
          /\ Len(gen.paths) >= 2
          /\ gen.paths[1] = Unwrap(Matched(<<".env">>))
          /\ gen.paths[2] = Unwrap(Matched(<<".env", ".", "local">>))

(***************************************************************************)
(* The SecretManager on its own: a string is drawn, a manager holding one  *)
(* of the identities encrypts it, and the string (or what the last call    *)
(* returned) is asked about and decrypted, by that manager or by one that  *)
(* holds the other identity.                                               *)
(***************************************************************************)
MaxValueLen == 3
MaxCalls == 3

ValueTokens == {"a", " ", "]", "!", TagCompact, TagArmor}

RECURSIVE SeqsUpTo(_, _)
SeqsUpTo(S, n) ==
    IF n = 0 THEN {<<>>}
    ELSE LET shorter == SeqsUpTo(S, n - 1)
         IN  shorter \cup {Append(q, t) : q \in shorter, t \in S}

Values == SeqsUpTo(ValueTokens, MaxValueLen)

Call(f, m, arg, out) == [fn |-> f, identity |-> m.identity, arg |-> arg, out |-> out]

CipherInit ==
    /\ dir = <<>>
    /\ manager \in {[identity |-> k] : k \in KeyIds}
    /\ env0 = EmptyMap
    /\ env = env0
    /\ op = "cipher"
    /\ pc = "idle"
    /\ env_vars = EmptyMap
    /\ loaded_files = {}
    /\ loaded_order = <<>>
    /\ saved_env = EmptyMap
    /\ result = NoResult
    /\ trace = <<>>
    /\ gen = NoGen
    /\ iters = 0
    /\ collected = NothingCollected
    /\ input \in Values
    /\ calls = <<>>
    /\ key_files = EmptyMap
    /\ invocations = <<>>

\* manager.encrypt_value(input), the string drawn being the plaintext; the
\* text returned is the string handed on.
EncryptValue ==
    /\ op = "cipher" /\ pc = "idle"
    /\ result' = encrypt_value(manager, input)
    /\ calls' = Append(calls, Call("encrypt_value", manager, input, result'))
    /\ input' = result'.val
    /\ pc' = "called"
    /\ UNCHANGED <<invocations, key_files, dir, manager, env, env0, op, env_vars, loaded_files, loaded_order,
                   saved_env, trace, gen, iters, collected>>

\* SecretManager::is_encrypted(input)
IsEncrypted ==
    /\ op = "cipher" /\ Len(calls) < MaxCalls
    /\ result' = Ok(is_encrypted(input))
    /\ calls' = Append(calls, Call("is_encrypted", manager, input, result'))
    /\ pc' = "called"
    /\ UNCHANGED <<invocations, key_files, dir, manager, env, env0, op, env_vars, loaded_files, loaded_order,
                   saved_env, trace, gen, iters, collected, input>>

\* manager.decrypt_value(input); what it returns is the string handed on.
DecryptValue ==
    /\ op = "cipher" /\ Len(calls) < MaxCalls
    /\ result' = decrypt_value(manager, input)
    /\ calls' = Append(calls, Call("decrypt_value", manager, input, result'))
    /\ input' = IF result'.tag = "Ok" THEN result'.val ELSE input
    /\ pc' = "called"
    /\ UNCHANGED <<invocations, key_files, dir, manager, env, env0, op, env_vars, loaded_files, loaded_order,
                   saved_env, trace, gen, iters, collected>>

\* SecretManager::new(identity): the calls that follow are made by a
\* manager that holds the other identity.
OtherManager ==
    /\ op = "cipher" /\ pc = "called" /\ Len(calls) < MaxCalls
    /\ \E k \in KeyIds \ {manager.identity} : manager' = [identity |-> k]
    /\ UNCHANGED <<invocations, key_files, dir, env, env0, op, pc, env_vars, loaded_files, loaded_order,
                   saved_env, result, trace, gen, iters, collected, input, calls>>

CipherNext ==
    \/ EncryptValue
    \/ IsEncrypted
    \/ DecryptValue
    \/ OtherManager

CipherSpec == CipherInit /\ [][CipherNext]_vars

(***************************************************************************)
(* Vocabulary of the SecretManager properties.                             *)
(***************************************************************************)
\* The calls of one function made so far.
CallsOf(f) == {i \in 1..Len(calls) : calls[i].fn = f}

\* ENC[AGE:b64:<base64>]: the tag, base64 text and the closing bracket.
IsCompactForm(v) ==
    /\ Len(v) >= 2
    /\ v[1] = TagCompact
    /\ v[Len(v)] = "]"
    /\ \A i \in 2..(Len(v) - 1) : v[i] \in B64Alphabet \cup {"="}

\* The first token of a string that is not white space, "" when none.
FirstNonWhite(v) ==
    LET at == {i \in 1..Len(v) : v[i] \notin {" ", "\t"}}
    IN  IF at = {} THEN "" ELSE v[CHOOSE i \in at : \A j \in at : i <= j]

\* The string starts, after trimming, with one of the two tags.
Tagged(v) == FirstNonWhite(v) \in {TagCompact, TagArmor}

(***************************************************************************)
(* C19.  Round trip: for every plaintext P, encrypt_value(P) has the form  *)
(* ENC[AGE:b64:<base64>], is_encrypted recognises it, and decrypt_value    *)
(* with the same identity returns exactly P.                               *)
(***************************************************************************)
C19_RoundTrip ==
    \A i \in CallsOf("encrypt_value") :
        /\ calls[i].out.tag = "Ok"
        /\ IsCompactForm(calls[i].out.val)
        /\ \A j \in CallsOf("is_encrypted") :
              calls[j].arg = calls[i].out.val => calls[j].out = Ok(TRUE)
        /\ \A j \in CallsOf("decrypt_value") :
              (calls[j].arg = calls[i].out.val /\ calls[j].identity = calls[i].identity) =>
                  calls[j].out = Ok(calls[i].arg)

\* A plaintext that holds white space at both ends, a tag and a closing
\* bracket was encrypted, recognised and decrypted to itself.
C19_Witness ==
    /\ Len(calls) = 3
    /\ calls[1].fn = "encrypt_value"
    /\ calls[1].arg = <<" ", TagCompact, "]">>
    /\ calls[2].fn = "is_encrypted" /\ calls[2].out = Ok(TRUE)
    /\ calls[3].fn = "decrypt_value"
    /\ calls[3].arg = calls[1].out.val
    /\ calls[3].identity = calls[1].identity
    /\ calls[3].out = Ok(calls[1].arg)

(***************************************************************************)
(* C20.  Plaintext pass-through: a value v that does not start (after      *)
(* trimming) with either encryption tag is returned by decrypt_value as    *)
(* Ok(v), unchanged and not trimmed, so decrypt_value is idempotent on     *)
(* plaintext.                                                              *)
(***************************************************************************)
C20_PlaintextPassThrough ==
    \A j \in CallsOf("decrypt_value") :
        ~Tagged(calls[j].arg) =>
            /\ calls[j].out = Ok(calls[j].arg)
            /\ (j < Len(calls) /\ calls[j + 1].fn = "decrypt_value") =>
                  /\ calls[j + 1].arg = calls[j].out.val
                  /\ calls[j + 1].out = calls[j].out

\* A value with white space at both ends and a bracket was decrypted twice
\* and came back as it was.
C20_Witness ==
    /\ Len(calls) >= 2
    /\ calls[1].fn = "decrypt_value" /\ calls[2].fn = "decrypt_value"
    /\ calls[1].arg = <<" ", "]", " ">>
    /\ calls[2].out = Ok(<<" ", "]", " ">>)

(***************************************************************************)
(* C21.  For every value that is_encrypted classifies as encrypted,        *)
(* decrypt_value either returns the decrypted plaintext or fails with      *)
(* DecryptionFailed; it never returns the value itself unchanged as if it  *)
(* were plaintext, and never panics.                                       *)
(***************************************************************************)
C21_EncryptedNeverPassedThrough ==
    \A j \in CallsOf("decrypt_value") :
        is_encrypted(calls[j].arg) =>
            \/ calls[j].out.tag = "Err" /\ calls[j].out.err.kind = "DecryptionFailed"
            \/ calls[j].out.tag = "Ok" /\ calls[j].out.val # calls[j].arg

(***************************************************************************)
(* load_from_dir and collect_all_vars_from_dir on files whose lines        *)
(* exercise the parser: blank and comment lines, white space around keys   *)
(* and values, quotes, and values that do not decrypt.                     *)
(***************************************************************************)
MaxParseFiles == 3

Blank == <<>>
Comment == <<"#", " ", "c">>
Undecryptable == Enc("k2", <<"2">>)

ParseFilePool ==
    { File(1, <<".env">>, << Line("FOO", <<"1">>), Line("BAR", <<"1">>) >>),
      File(1, <<".env">>, << Blank, Comment, Line("FOO", Undecryptable) >>),
      File(1, <<".env">>,
           << Line("BAR", <<"1">>), <<" ">>,
              <<" ", "FOO", " ", "=", " ">> \o Undecryptable \o <<" ">>,
              Line("BAZ", <<TagCompact, "!", "]">>) >>),
      File(1, <<".env">>,
           << Line("FOO", <<"\"", "2", "\"">>), Line("BAR", <<"'", "a", " ", "'">>),
              Line("BAZ", <<"\"", "a", "'">>), Line("QUX", <<>>),
              <<" ", "A", " ", "=", " ", "\"", "\"", "2", "\"", "\"", " ">> >>),
      File(1, <<".env">>, << Line("FOO", <<"\"", "\"">>), Line("FOO", <<"\"">>) >>),
      File(1, <<".env">>, << Comment, Line("BAR", <<"'">>) >>),
      File(1, <<".env">>,
           << Line("FOO", <<"\"">> \o Enc("k1", <<"s">>) \o <<"\"">>),
              <<"=", "v">>, <<"a">> >>),
      File(2, <<".env", ".", "local">>, << Line("FOO", <<"4">>) >>),
      File(2, <<".env", ".", "local">>,
           << Line("BAR", <<"4">>), Blank, Line("FOO", Undecryptable),
              Line("BAZ", Undecryptable) >>),
      File(3, <<".env", ".", "linux">>, << Line("FOO", <<"5">>), Line("BAZ", <<"5">>) >>) }

ParseDirectories ==
    {by_rank(S, TRUE) : S \in {T \in SUBSET ParseFilePool :
                                  /\ Cardinality(T) <= MaxParseFiles
                                  /\ \A x, y \in T : x.rank = y.rank => x = y}}

ParseEnvironments ==
    {Bound(S) : S \in SUBSET {Binding("DOTENVAGE_ENV", <<"s">>), Binding("FOO", <<"e">>)}}

ParseInit ==
    /\ dir \in ParseDirectories
    /\ manager = [identity |-> "k1"]
    /\ env0 \in ParseEnvironments
    /\ env = env0
    /\ op = "collect"
    /\ pc = "idle"
    /\ env_vars = EmptyMap
    /\ loaded_files = {}
    /\ loaded_order = <<>>
    /\ saved_env = EmptyMap
    /\ result = NoResult
    /\ trace = <<>>
    /\ gen = NoGen
    /\ iters = 0
    /\ collected = NothingCollected
    /\ input = <<>>
    /\ calls = <<>>
    /\ key_files = EmptyMap
    /\ invocations = <<>>

ParseSpec == ParseInit /\ [][Next]_vars

(***************************************************************************)
(* Vocabulary of the parser properties.                                    *)
(***************************************************************************)
\* The lines of a file of the directory.
ContentOf(path) == dir[CHOOSE j \in 1..Len(dir) : dir[j].name = path].content

\* The line is neither blank nor a comment and holds '='.
IsPair(line) ==
    /\ FirstNonWhite(line) \notin {"", "#"}
    /\ \E i \in 1..Len(line) : line[i] = "="

\* The position of the first '=' of a line.
FirstEq(line) ==
    CHOOSE i \in 1..Len(line) :
        line[i] = "=" /\ \A j \in 1..(i - 1) : line[j] # "="

KeyOf(line) == trim(SubSeq(line, 1, FirstEq(line) - 1))

ValueOf(line) == trim(SubSeq(line, FirstEq(line) + 1, Len(line)))

\* One layer of a matching pair of quotes removed.
Unquoted(v) ==
    IF Len(v) >= 2 /\ v[1] = v[Len(v)] /\ v[1] \in {"\"", "'"}
    THEN SubSeq(v, 2, Len(v) - 1)
    ELSE v

\* The numbers, counted from 1 over all the lines of the file, of the lines
\* whose value does not decrypt.
FailingLines(path) ==
    {i \in 1..Len(ContentOf(path)) :
        /\ IsPair(ContentOf(path)[i])
        /\ decrypt_value(manager, Unquoted(ValueOf(ContentOf(path)[i]))).tag = "Err"}

ParseFailed == pc = "returned" /\ result.tag = "Err" /\ result.err.kind = "EnvFileParseFailed"

LinesOf(path, key) ==
    {i \in 1..Len(ContentOf(path)) :
        IsPair(ContentOf(path)[i]) /\ KeyOf(ContentOf(path)[i]) = key}

\* The keys a file defines.
KeysOf(path) ==
    {KeyOf(ContentOf(path)[i]) :
        i \in {j \in 1..Len(ContentOf(path)) : IsPair(ContentOf(path)[j])}}

\* The value of the last line of a file that defines a key, trimmed and
\* with one layer of matching quotes removed.
LastValue(path, key) ==
    Unquoted(ValueOf(ContentOf(path)[
        CHOOSE i \in LinesOf(path, key) : \A j \in LinesOf(path, key) : j <= i]))

(***************************************************************************)
(* C25.  For every non-blank, non-comment line KEY=VALUE (split at the     *)
(* first '='), parse_and_decrypt stores under trim(KEY) the value          *)
(* trim(VALUE) with exactly one layer of quotes removed when it is         *)
(* surrounded by a matching pair of double or single quotes, and           *)
(* trim(VALUE) unchanged otherwise, for every VALUE: the empty value, one  *)
(* lone quote character, and different quote characters at the two ends    *)
(* included.                                                               *)
(***************************************************************************)
C25_TrimmedUnquotedValueStored ==
    /\ (op = "collect" /\ pc = "returned") => result.tag # "Panic"
    /\ (op = "collect" /\ Len(trace) = 1) =>
          /\ DOMAIN env_vars = KeysOf(trace[1].path)
          /\ \A k \in KeysOf(trace[1].path) :
                ~Tagged(LastValue(trace[1].path, k)) =>
                    env_vars[k] = LastValue(trace[1].path, k)

(***************************************************************************)
(* C30.  Every key/value pair that parse_and_decrypt can produce is        *)
(* accepted by the export step of load_from_dir: for no content of the     *)
(* files of the directory, a line with an empty key such as "=value"       *)
(* included, does load_from_dir abort (panic) instead of returning Ok or   *)
(* Err.                                                                    *)
(***************************************************************************)
C30_LoadNeverPanics ==
    (op = "load" /\ pc = "returned") => result.tag \in {"Ok", "Err"}

(***************************************************************************)
(* The resolvers on environments whose sources are empty or parse to an    *)
(* empty segment.                                                          *)
(***************************************************************************)
SegmentBindingPool ==
    { Binding("TARGET", <<"-", "x">>),
      Binding("TARGET", <<"a", "-", "b", "-">>),
      Binding("TARGET", <<"x86_64", "-", "unknown", "-", "linux", "-", "gnu">>),
      Binding("TARGETPLATFORM", <<"linux", "/">>),
      Binding("TARGETPLATFORM", <<"linux", "/", "arm64">>),
      Binding("DOTENVAGE_ARCH", <<>>),
      Binding("DOTENVAGE_OS", <<>>),
      Binding("RUNNER_ARCH", <<"X64">>),
      Binding("NODE_ENV", <<>>),
      Binding("USER", <<>>),
      Binding("VARIANT", <<>>) }

SegmentEnvironments ==
    {Bound(S) : S \in {T \in SUBSET SegmentBindingPool :
                          \A x, y \in T : x.key = y.key => x = y}}

SegmentDirectories ==
    { << Empty(<<".env">>), Empty(<<".env", ".", "local">>),
         Empty(<<".env", ".", "local", ".">>),
         Empty(<<".env", ".", "local", ".", ".", "arm64">>),
         Empty(<<".env", ".", "local", ".", "linux", ".", "amd64">>) >> }

SegmentInit ==
    /\ dir \in SegmentDirectories
    /\ manager = [identity |-> "k1"]
    /\ env0 \in SegmentEnvironments
    /\ env = env0
    /\ op = "resolve"
    /\ pc = "idle"
    /\ env_vars = EmptyMap
    /\ loaded_files = {}
    /\ loaded_order = <<>>
    /\ saved_env = EmptyMap
    /\ result = NoResult
    /\ trace = <<>>
    /\ gen = NoGen
    /\ iters = 0
    /\ collected = NothingCollected
    /\ input = <<>>
    /\ calls = <<>>
    /\ key_files = EmptyMap
    /\ invocations = <<>>

SegmentSpec == SegmentInit /\ [][ResolveNext]_vars

\* The name has an empty segment: it ends with '.' or holds two in a row.
HasEmptySegment(name) ==
    \/ name[Len(name)] = "."
    \/ \E i \in 1..(Len(name) - 1) : name[i] = "." /\ name[i + 1] = "."

(***************************************************************************)
(* C26.  No dimension ever resolves to the empty string: resolve_env,      *)
(* resolve_os, resolve_arch, resolve_user and resolve_variant skip empty   *)
(* sources, so for every process environment (TARGET or TARGETPLATFORM     *)
(* values that parse to an empty segment included) each returns either no  *)
(* value or a non-empty value, and no candidate file name contains an      *)
(* empty segment.                                                          *)
(***************************************************************************)
C26_NoEmptyDimension ==
    /\ DimensionsResolved => \A v \in ResolvedValues : v # <<>>
    /\ Resolved => \A i \in 1..Len(gen.names) : ~HasEmptySegment(gen.names[i])

(***************************************************************************)
(* SecretManager::load_key.  An identity in text is the token               *)
(* "AGE-SECRET-KEY-1" followed by a key id; every other text fails to      *)
(* parse.  The key files live under one state directory (XDG_STATE_HOME    *)
(* is fixed), so a key path is the key name with the extension ".key";     *)
(* key_files maps the paths that exist to their bytes.                     *)
(***************************************************************************)
KeyPrefix == "AGE-SECRET-KEY-1"

KeyText(k) == <<KeyPrefix, k>>

KeyLoadFailed(msg) == Err([kind |-> "KeyLoadFailed", msg |-> msg])

\* data.parse::<x25519::Identity>()
load_from_string(data) ==
    IF Len(data) = 2 /\ data[1] = KeyPrefix /\ data[2] \in KeyIds
    THEN Ok([identity |-> data[2]])
    ELSE KeyLoadFailed("parse key")

\* std::fs::read_to_string(path) of a key file, then load_from_string.
load_from_file(files, path) ==
    IF path \notin DOMAIN files THEN KeyLoadFailed("read: No such file or directory")
    ELSE IF ~is_unicode(files[path]) THEN KeyLoadFailed("read: invalid UTF-8")
    ELSE load_from_string(files[path])

DefaultKeyName == <<"dotenvage/dotenvage">>

\* key_path_from_env_or_default: AGE_KEY_NAME unless unset or blank,
\* under the state directory, with the extension "key".
key_path_from_env_or_default(e) ==
    LET name == var(e, "AGE_KEY_NAME")
        key_name == IF IsSome(name) /\ trim(Unwrap(name)) # <<>>
                    THEN Unwrap(name) ELSE DefaultKeyName
    IN  key_name \o <<".key">>

\* find_age_key_name_in_file over the lines from line i on: a line without
\* "=" ends the search (split_once(..)?).
RECURSIVE find_age_key_name_in_lines(_, _)
find_age_key_name_in_lines(lines, i) ==
    IF i > Len(lines) THEN None
    ELSE LET line == trim(lines[i])
             eq == find(line, "=")
             key == trim(SubSeq(line, 1, eq - 1))
             val == trim_matches(trim_matches(trim(SubSeq(line, eq + 1, Len(line))), "\""), "'")
         IN  IF line = <<>> \/ starts_with(line, <<"#">>)
             THEN find_age_key_name_in_lines(lines, i + 1)
             ELSE IF eq = 0 THEN None
             ELSE IF (key = <<"AGE_KEY_NAME">> \/ ends_with(key, <<"_AGE_KEY_NAME">>))
                     /\ val # <<>>
             THEN Some(val)
             ELSE find_age_key_name_in_lines(lines, i + 1)

find_age_key_name_in_file(d, file_path) ==
    LET content == read_to_string(d, file_path)
    IN  IF content.tag = "Ok" THEN find_age_key_name_in_lines(content.val, 1) ELSE None

\* discover_age_key_name_from_env_files: the environment it leaves.
discover_age_key_name_from_env_files(d, e) ==
    LET local == find_age_key_name_in_file(d, ".env.local")
        base == find_age_key_name_in_file(d, ".env")
    IN  IF IsSome(var(e, "AGE_KEY_NAME")) THEN e
        ELSE IF IsSome(local) THEN set_var(e, "AGE_KEY_NAME", Unwrap(local))
        ELSE IF IsSome(base) THEN set_var(e, "AGE_KEY_NAME", Unwrap(base))
        ELSE e

\* load_key with the sources tried until one parses: a key string or key
\* file that is invalid is passed over instead of reported.
load_key_until_parseable(files, e) ==
    LET key_path == key_path_from_env_or_default(e)
        sources == <<var(e, "DOTENVAGE_AGE_KEY"), var(e, "AGE_KEY"), var(e, "EKG_AGE_KEY"),
                     IF key_path \in DOMAIN files /\ is_unicode(files[key_path])
                     THEN Some(files[key_path]) ELSE None>>
        P == {i \in 1..4 : IsSome(sources[i]) /\ load_from_string(Unwrap(sources[i])).tag = "Ok"}
    IN  IF P = {} THEN KeyLoadFailed("no key found")
        ELSE load_from_string(Unwrap(sources[CHOOSE j \in P : \A l \in P : j <= l]))

\* SecretManager::load_key, e being the environment after the key name
\* discovery.
load_key(files, e) ==
    LET key_path == key_path_from_env_or_default(e)
    IN  IF IsSome(var(e, "DOTENVAGE_AGE_KEY"))
        THEN load_from_string(Unwrap(var(e, "DOTENVAGE_AGE_KEY")))
        ELSE IF IsSome(var(e, "AGE_KEY"))
        THEN load_from_string(Unwrap(var(e, "AGE_KEY")))
        ELSE IF IsSome(var(e, "EKG_AGE_KEY"))
        THEN load_from_string(Unwrap(var(e, "EKG_AGE_KEY")))
        ELSE IF key_path \in DOMAIN files
        THEN load_from_file(files, key_path)
        ELSE KeyLoadFailed("no key found")

(***************************************************************************)
(* The key sources a call of load_key may meet: each of the three          *)
(* variables unset, holding the text of an identity, text that is no       *)
(* identity, the empty string or bytes that are not Unicode; a key name    *)
(* set, blank or found in an env file; key files present, absent or        *)
(* holding no identity.                                                    *)
(***************************************************************************)
KeyVars == <<"DOTENVAGE_AGE_KEY", "AGE_KEY", "EKG_AGE_KEY">>

KeyStrings == {KeyText("k1"), KeyText("k2"), <<"garbage">>, <<>>, <<"0xFF">>}

KeyEnvironments ==
    LET opt == {None} \cup {Some(s) : s \in KeyStrings}
        names == {None, Some(<<"proj">>), Some(<<" ">>)}
    IN  {[k \in {KeyVars[i] : i \in {j \in 1..3 : IsSome(c[j])}}
                 \cup (IF IsSome(n) THEN {"AGE_KEY_NAME"} ELSE {})
            |-> IF k = "AGE_KEY_NAME" THEN Unwrap(n)
                ELSE Unwrap(c[CHOOSE j \in 1..3 : KeyVars[j] = k])]
         : c \in [1..3 -> opt], n \in names}

KeyStores ==
    LET dflt == {None, Some(KeyText("k2")), Some(<<"garbage">>)}
        proj == {None, Some(KeyText("k1"))}
    IN  {[p \in (IF IsSome(a) THEN {DefaultKeyName \o <<".key">>} ELSE {})
                \cup (IF IsSome(b) THEN {<<"proj", ".key">>} ELSE {})
            |-> IF p = <<"proj", ".key">> THEN Unwrap(b) ELSE Unwrap(a)]
         : a \in dflt, b \in proj}

KeyDirectories ==
    { <<>>,
      <<File(1, ".env", << <<"#", " ", "c">>, <<"AGE_KEY_NAME", "=", "\"", "proj", "\"">> >>)>>,
      <<File(1, ".env", << <<"AGE_KEY_NAME", "=", "other">> >>),
        File(2, ".env.local", << <<"X", "_AGE_KEY_NAME", " ", "=", " ", "proj">> >>)>> }

KeyInit ==
    /\ dir \in KeyDirectories
    /\ manager = [identity |-> "none"]
    /\ env0 \in KeyEnvironments
    /\ env = env0
    /\ op = "load_key"
    /\ pc = "idle"
    /\ env_vars = EmptyMap
    /\ loaded_files = {}
    /\ loaded_order = <<>>
    /\ saved_env = EmptyMap
    /\ result = NoResult
    /\ trace = <<>>
    /\ gen = NoGen
    /\ iters = 0
    /\ collected = NothingCollected
    /\ input = <<>>
    /\ calls = <<>>
    /\ key_files \in KeyStores
    /\ invocations = <<>>

\* SecretManager::load_key(): the key name discovery, then the sources in
\* priority order; the manager is the one returned.
LoadKey ==
    /\ op = "load_key" /\ pc = "idle"
    /\ env' = discover_age_key_name_from_env_files(dir, env)
    /\ result' = load_key(key_files, env')
    /\ manager' = IF result'.tag = "Ok" THEN result'.val ELSE manager
    /\ pc' = "returned"
    /\ UNCHANGED <<invocations, key_files, dir, env0, op, env_vars, loaded_files, loaded_order,
                   saved_env, trace, gen, iters, collected, input, calls>>

KeySpec == KeyInit /\ [][LoadKey]_vars

\* The sources of load_key in priority order as the call met them: the
\* three variables, then the key file; None for one that is not there.
KeySources ==
    <<var(env, "DOTENVAGE_AGE_KEY"), var(env, "AGE_KEY"), var(env, "EKG_AGE_KEY"),
      IF key_path_from_env_or_default(env) \in DOMAIN key_files
         /\ is_unicode(key_files[key_path_from_env_or_default(env)])
      THEN Some(key_files[key_path_from_env_or_default(env)]) ELSE None>>

Parseable(o) == IsSome(o) /\ load_from_string(Unwrap(o)).tag = "Ok"

KeyLoaded == op = "load_key" /\ pc = "returned"

\* C23 as stated: the identity used is that of the highest-priority source
\* holding a parseable identity, and KeyLoadFailed is returned only when no
\* source holds one.
C23_FirstParseableSourceUsed ==
    KeyLoaded =>
        LET P == {i \in 1..4 : Parseable(KeySources[i])}
        IN  IF P = {}
            THEN result.tag = "Err" /\ result.err.kind = "KeyLoadFailed"
            ELSE LET i == CHOOSE j \in P : \A l \in P : j <= l
                 IN  result = load_from_string(Unwrap(KeySources[i]))

\* C23 amended: the highest-priority source that is present decides: load_key
\* returns what parsing that source gives, its identity or KeyLoadFailed,
\* whatever the lower-priority sources hold, and KeyLoadFailed when no
\* source is present.
C23_FirstPresentSourceDecides ==
    KeyLoaded =>
        LET S == {i \in 1..4 : IsSome(KeySources[i])}
        IN  IF S = {}
            THEN result.tag = "Err" /\ result.err.kind = "KeyLoadFailed"
            ELSE LET i == CHOOSE j \in S : \A l \in S : j <= l
                 IN  /\ result = load_from_string(Unwrap(KeySources[i]))
                     /\ result.tag = "Ok" => manager = result.val

\* A call that met an unparseable DOTENVAGE_AGE_KEY above a valid AGE_KEY
\* and returned KeyLoadFailed.
C23_Witness ==
    /\ KeyLoaded
    /\ IsSome(KeySources[1]) /\ ~Parseable(KeySources[1])
    /\ Parseable(KeySources[2])
    /\ result.tag = "Err" /\ result.err.kind = "KeyLoadFailed"


(***************************************************************************)
(* C24.  When load_from_dir or collect_all_vars_from_dir returns            *)
(* successfully a fixpoint has been reached: every path resolve_env_paths  *)
(* yields under the dimension values in force when the loop halted has     *)
(* been loaded, and no existing file of a candidate name is left out.      *)
(***************************************************************************)
\* The environment the loop halted under: the one the last file was loaded
\* under with what the file made known set, the initial one if no file was
\* loaded.
HaltEnv ==
    IF trace = <<>> THEN env0
    ELSE set_all(trace[Len(trace)].env, trace[Len(trace)].discovered)

C24_FixpointOnSuccess ==
    (pc = "returned" /\ result.tag = "Ok") =>
        LET g == resolve_env_paths(dir, HaltEnv)
        IN  /\ gen.paths = g.paths
            /\ \A i \in 1..Len(g.paths) : g.paths[i] \in loaded_files
            /\ \A n \in 1..Len(g.names) :
                  IsSome(find_file_case_insensitive(dir, g.names[n])) =>
                      Unwrap(find_file_case_insensitive(dir, g.names[n])) \in loaded_files

\* A successful call whose loop loaded a file that made a dimension known
\* and then a file that exists for that dimension only.
C24_Witness ==
    /\ pc = "returned" /\ result.tag = "Ok"
    /\ \E j \in 2..(Len(trace) - 1) :
          /\ DOMAIN trace[j].discovered # {}
          /\ trace[j + 1].dims # trace[j].dims
          /\ ~(\E i \in 1..Len(resolve_env_paths(dir, trace[j].env).paths) :
                  resolve_env_paths(dir, trace[j].env).paths[i] = trace[j + 1].path)


(***************************************************************************)
(* C28.  On success the load order collect_all_vars_from_dir returns is    *)
(* the list resolve_env_paths produces under the dimension values in force *)
(* when the loop halted: a dimension value discovered inside a file gives  *)
(* the same files, in the same precedence order, as that value set in the  *)
(* process environment before the call.                                    *)
(***************************************************************************)
\* Directories where a file of a later candidate name holds the dimension
\* of an earlier one, and environments where the same values are set
\* before the call.
MaxOrderFiles == 3

OrderFilePool ==
    { File(1, <<".env">>, << Line("FOO", <<"1">>) >>),
      File(1, <<".env">>, << Line("NODE_ENV", <<"s">>), Line("FOO", <<"1">>) >>),
      File(2, <<".env", ".", "local">>, << Line("FOO", <<"5">>) >>),
      File(3, <<".env", ".", "s">>, << Line("FOO", <<"4">>) >>),
      File(4, <<".env", ".", "a">>, << Line("NODE_ENV", <<"s">>), Line("FOO", <<"7">>) >>),
      File(4, <<".env", ".", "a">>, << Line("FOO", <<"7">>) >>),
      File(5, <<".env", ".", "s", ".", "a">>, << Line("BAR", <<"8">>) >>) }

OrderDirectories ==
    {by_rank(S, TRUE) : S \in {T \in SUBSET OrderFilePool :
                                  /\ Cardinality(T) <= MaxOrderFiles
                                  /\ \A x, y \in T : x.rank = y.rank => x = y}}

OrderEnvironments ==
    {Bound(S) : S \in SUBSET { Binding("NODE_ENV", <<"s">>),
                              Binding("USER", <<"a">>),
                              Binding("FOO", <<"e">>) }}

OrderInit ==
    /\ dir \in OrderDirectories
    /\ manager = [identity |-> "k1"]
    /\ env0 \in OrderEnvironments
    /\ env = env0
    /\ op = "collect"
    /\ pc = "idle"
    /\ env_vars = EmptyMap
    /\ loaded_files = {}
    /\ loaded_order = <<>>
    /\ saved_env = EmptyMap
    /\ result = NoResult
    /\ trace = <<>>
    /\ gen = NoGen
    /\ iters = 0
    /\ collected = NothingCollected
    /\ input = <<>>
    /\ calls = <<>>
    /\ key_files = EmptyMap
    /\ invocations = <<>>

OrderSpec == OrderInit /\ [][Next]_vars

C28_LoadOrderIsFinalResolution ==
    (Returned("collect") /\ result.tag = "Ok") =>
        /\ result.val[2] = resolve_env_paths(dir, HaltEnv).paths
        /\ loaded_order = gen.paths


(***************************************************************************)
(* load_from_dir called twice in succession by one process on an unchanged *)
(* directory: the second call begins in the environment the first left.    *)
(***************************************************************************)
\* The second call of load_from_dir; what the first call did is kept.
LoadAgain ==
    /\ op = "load" /\ pc = "returned"
    /\ result.tag = "Ok"
    /\ collected = NothingCollected
    /\ collected' = [result |-> result, env |-> env, env_vars |-> env_vars,
                     trace |-> trace, gen |-> gen, iters |-> iters]
    /\ pc' = "idle"
    /\ env_vars' = EmptyMap
    /\ loaded_files' = {}
    /\ result' = NoResult
    /\ trace' = <<>>
    /\ gen' = NoGen
    /\ iters' = 0
    /\ UNCHANGED <<invocations, key_files, input, calls, dir, manager, env, env0, op, loaded_order, saved_env>>

TwiceInit ==
    /\ dir \in Directories
    /\ manager = [identity |-> "k1"]
    /\ \E c \in Choices : env0 = Environment(c)
    /\ env = env0
    /\ op = "load"
    /\ pc = "idle"
    /\ env_vars = EmptyMap
    /\ loaded_files = {}
    /\ loaded_order = <<>>
    /\ saved_env = EmptyMap
    /\ result = NoResult
    /\ trace = <<>>
    /\ gen = NoGen
    /\ iters = 0
    /\ collected = NothingCollected
    /\ input = <<>>
    /\ calls = <<>>
    /\ key_files = EmptyMap
    /\ invocations = <<>>

TwiceNext ==
    \/ LoadBegin
    \/ LoadLoadNext
    \/ LoadReturn
    \/ LoadAgain

TwiceSpec == TwiceInit /\ [][TwiceNext]_vars

\* The second of two successive calls has returned.
SecondReturned == op = "load" /\ pc = "returned" /\ collected.result.tag = "Ok"

(***************************************************************************)
(* C29.  load_from_dir is idempotent: the second of two successive calls   *)
(* on an unchanged directory loads the files the first loaded and leaves   *)
(* the process environment as the first left it, whatever the initial      *)
(* environment.                                                            *)
(***************************************************************************)
C29_LoadIdempotent ==
    SecondReturned =>
        /\ result.tag = "Ok"
        /\ loaded_files = {collected.trace[i].path : i \in 1..Len(collected.trace)}
        /\ env = collected.env


(***************************************************************************)
(* Two calls of collect_all_vars_from_dir run as threads of one process,   *)
(* on one directory and one process environment.  Each call has its own    *)
(* locals; the environment is shared.  A step is one of the calls the      *)
(* function makes on the environment: the save, the discovery that reads   *)
(* it, the set_var loop that writes what was discovered, the resolution of *)
(* the candidate paths, and the restore.  std::env serializes the single   *)
(* reads and writes, so the steps interleave and nothing else.             *)
(***************************************************************************)
Invocation == {1, 2}

Idle ==
    [pc |-> "idle", saved_env |-> EmptyMap, env_vars |-> EmptyMap, loaded_files |-> {},
     loaded_order |-> <<>>, found |-> <<>>, path |-> None, provisional |-> {},
     overlapped |-> FALSE, result |-> NoResult]

InFlight(i) == invocations[i].pc \notin {"idle", "returned"}

With(i, r) == [invocations EXCEPT ![i] = r]

\* let saved_env = Self::save_dimension_env_vars();
RaceSave ==
    /\ op = "race"
    /\ \E i \in Invocation :
          /\ invocations[i].pc = "idle"
          /\ invocations' = With(i, [invocations[i] EXCEPT
                 !.pc = "base",
                 !.saved_env = save_dimension_env_vars(env),
                 !.overlapped = \E j \in Invocation \ {i} : InFlight(j)])
    /\ UNCHANGED <<key_files, input, calls, dir, manager, env, env0, op, pc, env_vars,
                   loaded_files, loaded_order, saved_env, result, trace, gen, iters, collected>>

\* Steps 1-2: the base .env is loaded and its dimensions are discovered.
RaceBase ==
    /\ op = "race"
    /\ \E i \in Invocation :
          /\ invocations[i].pc = "base"
          /\ LET base_path == find_file_case_insensitive(dir, <<".env">>)
                 me == invocations[i]
             IN  IF ~IsSome(base_path)
                 THEN invocations' = With(i, [me EXCEPT !.pc = "loop"])
                 ELSE \E loaded \in {load_env_file(manager, dir, Unwrap(base_path))} :
                        IF loaded.tag # "Ok"
                        THEN invocations' = With(i, [me EXCEPT !.pc = "returned",
                                                               !.result = loaded])
                        ELSE invocations' = With(i, [me EXCEPT
                                !.pc = "set",
                                !.env_vars = merge(me.env_vars, loaded.val),
                                !.loaded_order = Append(me.loaded_order, Unwrap(base_path)),
                                !.loaded_files = mark_loaded(me.loaded_files, Unwrap(base_path)),
                                !.found = discover_dimensions_from_vars(env, loaded.val)])
    /\ UNCHANGED <<key_files, input, calls, dir, manager, env, env0, op, pc, env_vars,
                   loaded_files, loaded_order, saved_env, result, trace, gen, iters, collected>>

\* for (key, value) in discovered { set_var(&key, &value) }
RaceSetVars ==
    /\ op = "race"
    /\ \E i \in Invocation :
          /\ invocations[i].pc = "set"
          /\ env' = set_all(env, invocations[i].found)
          /\ invocations' = With(i, [invocations[i] EXCEPT
                 !.pc = "loop",
                 !.found = <<>>,
                 !.provisional = @ \cup {invocations[i].found[n] :
                                            n \in 1..Len(invocations[i].found)}])
    /\ UNCHANGED <<key_files, input, calls, dir, manager, env0, op, pc, env_vars,
                   loaded_files, loaded_order, saved_env, result, trace, gen, iters, collected>>

\* let candidate_paths = self.resolve_env_paths(dir); and the find of the
\* next file not loaded yet.
RaceResolve ==
    /\ op = "race"
    /\ \E i \in Invocation :
          /\ invocations[i].pc = "loop"
          /\ \E g \in {resolve_env_paths(dir, env)} :
                /\ env' = g.env
                /\ LET next == next_file(g.paths, invocations[i].loaded_files)
                   IN  invocations' = With(i, [invocations[i] EXCEPT
                           !.pc = IF IsSome(next) THEN "load" ELSE "restore",
                           !.path = next])
    /\ UNCHANGED <<key_files, input, calls, dir, manager, env0, op, pc, env_vars,
                   loaded_files, loaded_order, saved_env, result, trace, gen, iters, collected>>

\* The file found is loaded and its dimensions are discovered.
RaceLoad ==
    /\ op = "race"
    /\ \E i \in Invocation :
          /\ invocations[i].pc = "load"
          /\ LET me == invocations[i]
             IN  \E loaded \in {load_env_file(manager, dir, Unwrap(me.path))} :
                    IF loaded.tag # "Ok"
                    THEN invocations' = With(i, [me EXCEPT !.pc = "returned",
                                                           !.result = loaded])
                    ELSE invocations' = With(i, [me EXCEPT
                            !.pc = "set",
                            !.env_vars = merge(me.env_vars, loaded.val),
                            !.loaded_order = Append(me.loaded_order, Unwrap(me.path)),
                            !.loaded_files = mark_loaded(me.loaded_files, Unwrap(me.path)),
                            !.found = discover_dimensions_from_vars(env, loaded.val)])
    /\ UNCHANGED <<key_files, input, calls, dir, manager, env, env0, op, pc, env_vars,
                   loaded_files, loaded_order, saved_env, result, trace, gen, iters, collected>>

\* Self::restore_dimension_env_vars(&saved_env); Ok((env_vars, loaded_order))
RaceRestore ==
    /\ op = "race"
    /\ \E i \in Invocation :
          /\ invocations[i].pc = "restore"
          /\ env' = restore_dimension_env_vars(env, invocations[i].saved_env)
          /\ invocations' = With(i, [invocations[i] EXCEPT
                 !.pc = "returned",
                 !.result = Ok(<<invocations[i].env_vars, invocations[i].loaded_order>>)])
    /\ UNCHANGED <<key_files, input, calls, dir, manager, env0, op, pc, env_vars,
                   loaded_files, loaded_order, saved_env, result, trace, gen, iters, collected>>

RaceDirectories ==
    { <<[name |-> <<".env">>, content |-> << Line("NODE_ENV", <<"p">>), Line("FOO", <<"1">>) >>],
        [name |-> <<".env", ".", "p">>, content |-> << Line("VARIANT", <<"c">>) >>]>>,
      <<[name |-> <<".env">>, content |-> << Line("FOO", <<"1">>) >>],
        [name |-> <<".env", ".", "local">>, content |-> << Line("DOTENVAGE_USER", <<"b">>) >>]>>,
      <<[name |-> <<".env">>, content |-> << Line("NODE_ENV", <<"p">>) >>],
        [name |-> <<".env", ".", "p">>, content |-> << Line("FOO", Enc("k2", <<"2">>)) >>]>>,
      <<[name |-> <<".env", ".", "s">>, content |-> << Line("FOO", <<"4">>) >>]>> }

RaceEnvironments ==
    {Environment(c) : c \in {d \in Choices : d.n # Some(<<>>)}}
      \cup {set_var(EmptyMap, <<"NODE_ENV">>, <<"s">>)}

RaceInit ==
    /\ dir \in RaceDirectories
    /\ manager = [identity |-> "k1"]
    /\ env0 \in RaceEnvironments
    /\ env = env0
    /\ op = "race"
    /\ pc = "idle"
    /\ env_vars = EmptyMap
    /\ loaded_files = {}
    /\ loaded_order = <<>>
    /\ saved_env = EmptyMap
    /\ result = NoResult
    /\ trace = <<>>
    /\ gen = NoGen
    /\ iters = 0
    /\ collected = NothingCollected
    /\ input = <<>>
    /\ calls = <<>>
    /\ key_files = EmptyMap
    /\ invocations = [i \in Invocation |-> Idle]

RaceNext ==
    \/ RaceSave
    \/ RaceBase
    \/ RaceSetVars
    \/ RaceResolve
    \/ RaceLoad
    \/ RaceRestore

RaceSpec == RaceInit /\ [][RaceNext]_vars

\* Both calls have returned successfully.
BothReturnedOk ==
    /\ op = "race"
    /\ \A i \in Invocation : invocations[i].pc = "returned" /\ invocations[i].result.tag = "Ok"

\* One call began after the other had returned.
Serialized == \A i \in Invocation : ~invocations[i].overlapped

\* The dimension keys left at a value that a discovery set and that is not
\* the value the key had before either call began.
LeftProvisional ==
    {k \in DimensionKeySet :
        /\ k \in DOMAIN env
        /\ ~(k \in DOMAIN env0 /\ env0[k] = env[k])
        /\ \E i \in Invocation : <<k, env[k]>> \in invocations[i].provisional}

(***************************************************************************)
(* C27.  Two overlapping calls of collect_all_vars_from_dir race: an       *)
(* interleaving of their save, set_var, resolve and restore steps ends,    *)
(* both calls having returned successfully, with a dimension key left at a *)
(* value set provisionally during discovery (C27_Witness); when the two    *)
(* calls are serialized no such state is reachable.                        *)
(***************************************************************************)
C27_SerializedLeavesNoProvisional ==
    (BothReturnedOk /\ Serialized) => LeftProvisional = {}

\* Two overlapping calls have both returned successfully and a dimension
\* key, unset or set otherwise before them, holds a discovered value.
C27_Witness ==
    /\ BothReturnedOk
    /\ ~Serialized
    /\ LeftProvisional # {}

\* Two serialized calls have both returned successfully, each having set a
\* discovered dimension value and restored it.
C27_WitnessSerialized ==
    /\ BothReturnedOk
    /\ Serialized
    /\ \A i \in Invocation : invocations[i].provisional # {}
    /\ LeftProvisional = {}


====
